---- MODULE Spec2Model ----
(***************************************************************************)
(* Pitch-class-set algebra (pitch_class_set.py) and the Forte              *)
(* classification table with its queries (forte_classification.py).        *)
(*                                                                         *)
(* A PitchClassSet instance is the record                                  *)
(*   [pitch_classes |-> <list of ints>, cardinality |-> <int>].            *)
(* A Python list is a sequence; a str is a sequence of one-character       *)
(* strings; Optional[x] is <<>> (None) or <<x>>.                           *)
(***************************************************************************)
EXTENDS Integers, Sequences, FiniteSets, TLC

(***************************************************************************)
(* Program constant and the bounds of the model.                           *)
(***************************************************************************)
PCMod == 12

MaxN == 1
MaxLen == 2
MaxOtherPc == 1
MaxLabelLen == 4

MaxTextLen == 4

\* integer arguments: negative, 0..11, and 12 or larger
NRange == (0 - MaxN)..(PCMod - 1 + MaxN)

(***************************************************************************)
(* Python built-ins used by the code.                                      *)
(***************************************************************************)
Range(s) == {s[i] : i \in DOMAIN s}

\* the remainder that takes the sign of a
PyMod_trunc(a, b) == IF a < 0 THEN 0 - ((0 - a) % b) ELSE a % b

\* a % b of Python for b > 0: the result lies in 0..b-1, also for a < 0
PyMod(a, b) == a % b

RECURSIVE sorted(_)
\* sorted(list(S)) for a set S of integers: ascending order
sorted(S) ==
  IF S = {} THEN <<>>
  ELSE LET m == CHOOSE x \in S : \A y \in S : x <= y
       IN  <<m>> \o sorted(S \ {m})

reversed(s) == [i \in DOMAIN s |-> s[Len(s) + 1 - i]]

abs(x) == IF x < 0 THEN 0 - x ELSE x

\* min of two that returns its first argument
min2_first(a, b) == a

min2(a, b) == IF b < a THEN b ELSE a

RECURSIVE ListLess(_, _)
\* a < b on Python lists of integers: lexicographic, a proper prefix is smaller
ListLess(a, b) ==
  IF b = <<>> THEN FALSE
  ELSE IF a = <<>> THEN TRUE
  ELSE IF a[1] # b[1] THEN a[1] < b[1]
  ELSE ListLess(Tail(a), Tail(b))

\* min replaced by taking the last candidate
min_last(cands) == cands[Len(cands)]

RECURSIVE min(_)
\* min(candidates) of a non-empty list of lists: the first smallest one
min(cands) ==
  IF Len(cands) = 1 THEN cands[1]
  ELSE LET m == min(SubSeq(cands, 1, Len(cands) - 1))
           c == cands[Len(cands)]
       IN  IF ListLess(c, m) THEN c ELSE m

(***************************************************************************)
(* class PitchClassSet                                                     *)
(***************************************************************************)
\* __post_init__ without the reduction modulo 12
PitchClassSet_NoMod(list) ==
  LET ps == sorted(Range(list))
  IN  [pitch_classes |-> ps, cardinality |-> Len(ps)]

\* the generated __init__ followed by __post_init__
PitchClassSet(list) ==
  LET ps == sorted({PyMod(pc, PCMod) : pc \in Range(list)})
  IN  [pitch_classes |-> ps, cardinality |-> Len(ps)]

\* __eq__ between two PitchClassSet instances
eq(self, other) == self.pitch_classes = other.pitch_classes

\* __len__
len(self) == self.cardinality

add_pitch_class(self, pitch_class) ==
  PitchClassSet(self.pitch_classes \o <<PyMod(pitch_class, PCMod)>>)

remove_pitch_class(self, pitch_class) ==
  PitchClassSet(SelectSeq(self.pitch_classes,
                          LAMBDA pc : pc # PyMod(pitch_class, PCMod)))

\* transposition that subtracts n
transposition_down(self, n) ==
  PitchClassSet([i \in DOMAIN self.pitch_classes |->
                   PyMod(self.pitch_classes[i] - n, PCMod)])

transposition(self, n) ==
  PitchClassSet([i \in DOMAIN self.pitch_classes |->
                   PyMod(self.pitch_classes[i] + n, PCMod)])

\* inversion that adds the pitch class to n
inversion_up(self, n) ==
  PitchClassSet([i \in DOMAIN self.pitch_classes |->
                   PyMod(n + self.pitch_classes[i], PCMod)])

inversion(self, n) ==
  PitchClassSet([i \in DOMAIN self.pitch_classes |->
                   PyMod(n - self.pitch_classes[i], PCMod)])

\* rotation that stores the rotated list as it is
rotation_unsorted(self, n) ==
  IF self.pitch_classes = <<>> THEN PitchClassSet(<<>>)
  ELSE LET k == PyMod(n, Len(self.pitch_classes))
           rotated_pcs ==
             SubSeq(self.pitch_classes, k + 1, Len(self.pitch_classes))
               \o SubSeq(self.pitch_classes, 1, k)
       IN  [PitchClassSet(rotated_pcs) EXCEPT !.pitch_classes = rotated_pcs]

rotation(self, n) ==
  IF self.pitch_classes = <<>> THEN PitchClassSet(<<>>)
  ELSE LET k == PyMod(n, Len(self.pitch_classes))
           rotated_pcs ==
             SubSeq(self.pitch_classes, k + 1, Len(self.pitch_classes))
               \o SubSeq(self.pitch_classes, 1, k)
       IN  PitchClassSet(rotated_pcs)

retrograde(self) ==
  IF self.pitch_classes = <<>> THEN PitchClassSet(<<>>)
  ELSE LET retrograde_pcs == reversed(self.pitch_classes)
       IN  [PitchClassSet(retrograde_pcs) EXCEPT !.pitch_classes = retrograde_pcs]

\* retrograde first, inversion second
retrograde_inversion_swapped(self, n) == inversion(retrograde(self), n)

retrograde_inversion(self, n) == retrograde(inversion(self, n))

get_playback_order(self) == self.pitch_classes

prime_form(self) ==
  IF self.pitch_classes = <<>> THEN <<>>
  ELSE LET inverted == inversion(self, 0)
           candidates ==
             [i \in 1..Len(self.pitch_classes) |->
                rotation(self, i - 1).pitch_classes]
             \o [i \in 1..Len(inverted.pitch_classes) |->
                   rotation(inverted, i - 1).pitch_classes]
       IN  min(candidates)

\* the interval class of two pitch classes
interval_class(a, b) ==
  LET interval == abs(a - b)
  IN  min2(interval, PCMod - interval)

\* an interval above 6 folded by subtracting 6
interval_class_minus6(a, b) ==
  LET interval == abs(a - b)
  IN  IF interval <= 6 THEN interval ELSE interval - 6

RECURSIVE CountIntervals(_, _, _)
\* the outer loop of interval_vector from index i on; the inner loop over
\* j > i adds one to a count for each interval class it meets;
\* interval_counts[interval_class - 1] of the code is counts[interval_class]
CountIntervals(l, i, counts) ==
  IF i > Len(l) THEN counts
  ELSE CountIntervals(l, i + 1,
         [c \in 1..6 |->
            counts[c] + Cardinality({j \in (i + 1)..Len(l) :
                                       interval_class(l[i], l[j]) = c})])

RECURSIVE CountIntervals_minus6(_, _, _)
CountIntervals_minus6(l, i, counts) ==
  IF i > Len(l) THEN counts
  ELSE CountIntervals_minus6(l, i + 1,
         [c \in 1..6 |->
            counts[c] + Cardinality({j \in (i + 1)..Len(l) :
                                       interval_class_minus6(l[i], l[j]) = c})])

\* interval_vector with the other folding
interval_vector_minus6(self) ==
  IF Len(self.pitch_classes) < 2 THEN <<0, 0, 0, 0, 0, 0>>
  ELSE CountIntervals_minus6(self.pitch_classes, 1, <<0, 0, 0, 0, 0, 0>>)

interval_vector(self) ==
  IF Len(self.pitch_classes) < 2 THEN <<0, 0, 0, 0, 0, 0>>
  ELSE CountIntervals(self.pitch_classes, 1, <<0, 0, 0, 0, 0, 0>>)

intersection(self, other) ==
  PitchClassSet(SelectSeq(self.pitch_classes,
                          LAMBDA pc : pc \in Range(other.pitch_classes)))

union(self, other) == PitchClassSet(self.pitch_classes \o other.pitch_classes)

complement(self) ==
  PitchClassSet(SelectSeq([i \in 1..PCMod |-> i - 1],
                          LAMBDA pc : pc \notin Range(self.pitch_classes)))

\* similarity_relation whose R2 joins its two conditions with "or"
similarity_relation_or(self, other) ==
  LET same_interval_vector == interval_vector(self) = interval_vector(other)
      same_cardinality == self.cardinality = other.cardinality
      complementary_cardinality == self.cardinality + other.cardinality = PCMod
      cardinality_diff_1 == abs(self.cardinality - other.cardinality) = 1
  IN  [R  |-> same_interval_vector,
       R0 |-> same_interval_vector /\ same_cardinality,
       R1 |-> same_interval_vector /\ complementary_cardinality,
       R2 |-> same_interval_vector \/ cardinality_diff_1]

\* returns Dict[str, bool]: the record of the keys 'R', 'R0', 'R1', 'R2'
similarity_relation(self, other) ==
  LET same_interval_vector == interval_vector(self) = interval_vector(other)
      same_cardinality == self.cardinality = other.cardinality
      complementary_cardinality == self.cardinality + other.cardinality = PCMod
      cardinality_diff_1 == abs(self.cardinality - other.cardinality) = 1
  IN  [R  |-> same_interval_vector,
       R0 |-> same_interval_vector /\ same_cardinality,
       R1 |-> same_interval_vector /\ complementary_cardinality,
       R2 |-> same_interval_vector /\ cardinality_diff_1]

RECURSIVE combinations(_, _)
\* itertools.combinations(iterable, r): the r-length tuples of elements of
\* iterable, by position, in lexicographic order of the positions
combinations(iterable, r) ==
  IF r = 0 THEN << <<>> >>
  ELSE IF Len(iterable) < r THEN <<>>
  ELSE LET with == combinations(Tail(iterable), r - 1)
       IN  [i \in DOMAIN with |-> <<Head(iterable)>> \o with[i]]
             \o combinations(Tail(iterable), r)

\* find_subsets that also refuses the size of the whole set
find_subsets_strict(self, subset_size) ==
  IF subset_size >= Len(self.pitch_classes) \/ subset_size < 0 THEN <<>>
  ELSE LET combos == combinations(self.pitch_classes, subset_size)
       IN  [i \in DOMAIN combos |-> PitchClassSet(combos[i])]

\* returns List[PitchClassSet]
find_subsets(self, subset_size) ==
  IF subset_size > Len(self.pitch_classes) \/ subset_size < 0 THEN <<>>
  ELSE LET combos == combinations(self.pitch_classes, subset_size)
       IN  [i \in DOMAIN combos |-> PitchClassSet(combos[i])]

\* find_supersets that draws the added pitch classes from all twelve
find_supersets_all(self, superset_size) ==
  IF superset_size < Len(self.pitch_classes) \/ superset_size > PCMod THEN <<>>
  ELSE LET remaining_pcs == [i \in 1..PCMod |-> i - 1]
           combos == combinations(remaining_pcs,
                                  superset_size - Len(self.pitch_classes))
       IN  [i \in DOMAIN combos |->
              PitchClassSet(self.pitch_classes \o combos[i])]

\* returns List[PitchClassSet]
find_supersets(self, superset_size) ==
  IF superset_size < Len(self.pitch_classes) \/ superset_size > PCMod THEN <<>>
  ELSE LET remaining_pcs ==
             SelectSeq([i \in 1..PCMod |-> i - 1],
                       LAMBDA pc : pc \notin Range(self.pitch_classes))
           combos == combinations(remaining_pcs,
                                  superset_size - Len(self.pitch_classes))
       IN  [i \in DOMAIN combos |->
              PitchClassSet(self.pitch_classes \o combos[i])]

(***************************************************************************)
(* Python str operations used by the Forte queries.  A str is a sequence   *)
(* of one-character strings over the characters of the labels ("0".."9",   *)
(* "-") and " ", "+", "_" and letters.                                     *)
(***************************************************************************)
None == <<>>

Some(x) == <<x>>

DigitChars == {"0", "1", "2", "3", "4", "5", "6", "7", "8", "9"}

DigitVal(ch) ==
  CASE ch = "0" -> 0 [] ch = "1" -> 1 [] ch = "2" -> 2 [] ch = "3" -> 3
    [] ch = "4" -> 4 [] ch = "5" -> 5 [] ch = "6" -> 6 [] ch = "7" -> 7
    [] ch = "8" -> 8 [] ch = "9" -> 9

RECURSIVE split(_, _)
\* s.split(sep) for a one-character separator
split(s, sep) ==
  IF \A i \in DOMAIN s : s[i] # sep THEN <<s>>
  ELSE LET i == CHOOSE j \in DOMAIN s :
                  s[j] = sep /\ \A h \in 1..(j - 1) : s[h] # sep
       IN  <<SubSeq(s, 1, i - 1)>> \o split(SubSeq(s, i + 1, Len(s)), sep)

RECURSIVE strip(_)
\* s.strip() where the only whitespace character is " "
strip(s) ==
  IF s = <<>> THEN s
  ELSE IF s[1] = " " THEN strip(Tail(s))
  ELSE IF s[Len(s)] = " " THEN strip(SubSeq(s, 1, Len(s) - 1))
  ELSE s

\* the digits of an int literal, sign removed
IntBody(s) ==
  LET t == strip(s)
  IN  IF t # <<>> /\ t[1] \in {"+", "-"} THEN Tail(t) ELSE t

\* int(s) does not raise ValueError
IntOk(s) ==
  LET u == IntBody(s)
  IN  /\ u # <<>>
      /\ u[1] \in DigitChars
      /\ u[Len(u)] \in DigitChars
      /\ \A i \in DOMAIN u :
           \/ u[i] \in DigitChars
           \/ u[i] = "_" /\ u[i - 1] \in DigitChars /\ u[i + 1] \in DigitChars

RECURSIVE DigitsVal(_)
DigitsVal(u) ==
  IF u = <<>> THEN 0
  ELSE LET last == u[Len(u)]
           front == SubSeq(u, 1, Len(u) - 1)
       IN  IF last = "_" THEN DigitsVal(front)
           ELSE 10 * DigitsVal(front) + DigitVal(last)

\* int(s) where IntOk(s)
int(s) ==
  LET t == strip(s)
  IN  IF t[1] = "-" THEN 0 - DigitsVal(IntBody(s)) ELSE DigitsVal(IntBody(s))

(***************************************************************************)
(* class ForteClassification.  A dict is the sequence of its items in      *)
(* insertion order, which is the order its iteration visits.               *)
(***************************************************************************)
cardinality_counts ==
  1 :> 1 @@ 2 :> 6 @@ 3 :> 12 @@ 4 :> 29 @@ 5 :> 38 @@ 6 :> 50 @@ 7 :> 38
    @@ 8 :> 29 @@ 9 :> 12 @@ 10 :> 6 @@ 11 :> 1 @@ 12 :> 1

FORTE_TABLE ==
     1 :> <<
       [prime_form |-> <<0>>, forte_num |-> <<"1", "-", "1">>]
     >>
  @@ 2 :> <<
       [prime_form |-> <<0, 1>>, forte_num |-> <<"2", "-", "1">>],
       [prime_form |-> <<0, 2>>, forte_num |-> <<"2", "-", "2">>],
       [prime_form |-> <<0, 3>>, forte_num |-> <<"2", "-", "3">>],
       [prime_form |-> <<0, 4>>, forte_num |-> <<"2", "-", "4">>],
       [prime_form |-> <<0, 5>>, forte_num |-> <<"2", "-", "5">>],
       [prime_form |-> <<0, 6>>, forte_num |-> <<"2", "-", "6">>]
     >>
  @@ 3 :> <<
       [prime_form |-> <<0, 1, 2>>, forte_num |-> <<"3", "-", "1">>],
       [prime_form |-> <<0, 1, 3>>, forte_num |-> <<"3", "-", "2">>],
       [prime_form |-> <<0, 1, 4>>, forte_num |-> <<"3", "-", "3">>],
       [prime_form |-> <<0, 1, 5>>, forte_num |-> <<"3", "-", "4">>],
       [prime_form |-> <<0, 1, 6>>, forte_num |-> <<"3", "-", "5">>],
       [prime_form |-> <<0, 2, 4>>, forte_num |-> <<"3", "-", "6">>],
       [prime_form |-> <<0, 2, 5>>, forte_num |-> <<"3", "-", "7">>],
       [prime_form |-> <<0, 2, 6>>, forte_num |-> <<"3", "-", "8">>],
       [prime_form |-> <<0, 2, 7>>, forte_num |-> <<"3", "-", "9">>],
       [prime_form |-> <<0, 3, 6>>, forte_num |-> <<"3", "-", "1", "0">>],
       [prime_form |-> <<0, 3, 7>>, forte_num |-> <<"3", "-", "1", "1">>],
       [prime_form |-> <<0, 4, 7>>, forte_num |-> <<"3", "-", "1", "1">>],
       [prime_form |-> <<0, 4, 8>>, forte_num |-> <<"3", "-", "1", "2">>]
     >>
  @@ 4 :> <<
       [prime_form |-> <<0, 1, 2, 3>>, forte_num |-> <<"4", "-", "1">>],
       [prime_form |-> <<0, 1, 2, 4>>, forte_num |-> <<"4", "-", "2">>],
       [prime_form |-> <<0, 1, 2, 5>>, forte_num |-> <<"4", "-", "3">>],
       [prime_form |-> <<0, 1, 2, 6>>, forte_num |-> <<"4", "-", "4">>],
       [prime_form |-> <<0, 1, 2, 7>>, forte_num |-> <<"4", "-", "5">>],
       [prime_form |-> <<0, 1, 3, 4>>, forte_num |-> <<"4", "-", "6">>],
       [prime_form |-> <<0, 1, 3, 5>>, forte_num |-> <<"4", "-", "7">>],
       [prime_form |-> <<0, 1, 3, 6>>, forte_num |-> <<"4", "-", "8">>],
       [prime_form |-> <<0, 1, 3, 7>>, forte_num |-> <<"4", "-", "9">>],
       [prime_form |-> <<0, 1, 4, 5>>, forte_num |-> <<"4", "-", "1", "0">>],
       [prime_form |-> <<0, 1, 4, 6>>, forte_num |-> <<"4", "-", "1", "1">>],
       [prime_form |-> <<0, 1, 4, 7>>, forte_num |-> <<"4", "-", "1", "2">>],
       [prime_form |-> <<0, 1, 5, 6>>, forte_num |-> <<"4", "-", "1", "3">>],
       [prime_form |-> <<0, 1, 5, 7>>, forte_num |-> <<"4", "-", "1", "4">>],
       [prime_form |-> <<0, 1, 6, 7>>, forte_num |-> <<"4", "-", "1", "5">>],
       [prime_form |-> <<0, 2, 3, 5>>, forte_num |-> <<"4", "-", "1", "6">>],
       [prime_form |-> <<0, 2, 3, 6>>, forte_num |-> <<"4", "-", "1", "7">>],
       [prime_form |-> <<0, 2, 3, 7>>, forte_num |-> <<"4", "-", "1", "8">>],
       [prime_form |-> <<0, 2, 4, 6>>, forte_num |-> <<"4", "-", "1", "9">>],
       [prime_form |-> <<0, 2, 4, 7>>, forte_num |-> <<"4", "-", "2", "0">>],
       [prime_form |-> <<0, 2, 4, 8>>, forte_num |-> <<"4", "-", "2", "1">>],
       [prime_form |-> <<0, 2, 5, 7>>, forte_num |-> <<"4", "-", "2", "2">>],
       [prime_form |-> <<0, 2, 5, 8>>, forte_num |-> <<"4", "-", "2", "3">>],
       [prime_form |-> <<0, 2, 6, 8>>, forte_num |-> <<"4", "-", "2", "4">>],
       [prime_form |-> <<0, 3, 4, 7>>, forte_num |-> <<"4", "-", "2", "5">>],
       [prime_form |-> <<0, 3, 5, 8>>, forte_num |-> <<"4", "-", "2", "6">>],
       [prime_form |-> <<0, 3, 6, 9>>, forte_num |-> <<"4", "-", "2", "7">>],
       [prime_form |-> <<0, 4, 5, 8>>, forte_num |-> <<"4", "-", "2", "8">>],
       [prime_form |-> <<0, 4, 6, 10>>, forte_num |-> <<"4", "-", "2", "9">>],
       [prime_form |-> <<0, 2, 5, 9>>, forte_num |-> <<"4", "-", "2", "6">>],
       [prime_form |-> <<0, 1, 5, 8>>, forte_num |-> <<"4", "-", "2", "5">>]
     >>
  @@ 5 :> <<
       [prime_form |-> <<0, 1, 2, 3, 4>>, forte_num |-> <<"5", "-", "1">>],
       [prime_form |-> <<0, 1, 2, 3, 5>>, forte_num |-> <<"5", "-", "2">>],
       [prime_form |-> <<0, 1, 2, 3, 6>>, forte_num |-> <<"5", "-", "3">>],
       [prime_form |-> <<0, 1, 2, 3, 7>>, forte_num |-> <<"5", "-", "4">>],
       [prime_form |-> <<0, 1, 2, 4, 5>>, forte_num |-> <<"5", "-", "5">>],
       [prime_form |-> <<0, 1, 2, 4, 6>>, forte_num |-> <<"5", "-", "6">>],
       [prime_form |-> <<0, 1, 2, 4, 7>>, forte_num |-> <<"5", "-", "7">>],
       [prime_form |-> <<0, 1, 2, 4, 8>>, forte_num |-> <<"5", "-", "8">>],
       [prime_form |-> <<0, 1, 2, 5, 6>>, forte_num |-> <<"5", "-", "9">>],
       [prime_form |-> <<0, 1, 2, 5, 7>>, forte_num |-> <<"5", "-", "1", "0">>],
       [prime_form |-> <<0, 1, 2, 5, 8>>, forte_num |-> <<"5", "-", "1", "1">>],
       [prime_form |-> <<0, 1, 2, 6, 7>>, forte_num |-> <<"5", "-", "1", "2">>],
       [prime_form |-> <<0, 1, 2, 6, 8>>, forte_num |-> <<"5", "-", "1", "3">>],
       [prime_form |-> <<0, 1, 2, 6, 9>>, forte_num |-> <<"5", "-", "1", "4">>],
       [prime_form |-> <<0, 1, 3, 4, 5>>, forte_num |-> <<"5", "-", "1", "5">>],
       [prime_form |-> <<0, 1, 3, 4, 6>>, forte_num |-> <<"5", "-", "1", "6">>],
       [prime_form |-> <<0, 1, 3, 4, 7>>, forte_num |-> <<"5", "-", "1", "7">>],
       [prime_form |-> <<0, 1, 3, 4, 8>>, forte_num |-> <<"5", "-", "1", "8">>],
       [prime_form |-> <<0, 1, 3, 5, 6>>, forte_num |-> <<"5", "-", "1", "9">>],
       [prime_form |-> <<0, 1, 3, 5, 7>>, forte_num |-> <<"5", "-", "2", "0">>],
       [prime_form |-> <<0, 1, 3, 5, 8>>, forte_num |-> <<"5", "-", "2", "1">>],
       [prime_form |-> <<0, 1, 3, 6, 7>>, forte_num |-> <<"5", "-", "2", "2">>],
       [prime_form |-> <<0, 1, 3, 6, 8>>, forte_num |-> <<"5", "-", "2", "3">>],
       [prime_form |-> <<0, 1, 3, 6, 9>>, forte_num |-> <<"5", "-", "2", "4">>],
       [prime_form |-> <<0, 1, 4, 5, 6>>, forte_num |-> <<"5", "-", "2", "5">>],
       [prime_form |-> <<0, 1, 4, 5, 7>>, forte_num |-> <<"5", "-", "2", "6">>],
       [prime_form |-> <<0, 1, 4, 5, 8>>, forte_num |-> <<"5", "-", "2", "7">>],
       [prime_form |-> <<0, 1, 4, 6, 7>>, forte_num |-> <<"5", "-", "2", "8">>],
       [prime_form |-> <<0, 1, 4, 6, 8>>, forte_num |-> <<"5", "-", "2", "9">>],
       [prime_form |-> <<0, 1, 4, 6, 9>>, forte_num |-> <<"5", "-", "3", "0">>],
       [prime_form |-> <<0, 1, 5, 6, 7>>, forte_num |-> <<"5", "-", "3", "1">>],
       [prime_form |-> <<0, 1, 5, 6, 8>>, forte_num |-> <<"5", "-", "3", "2">>],
       [prime_form |-> <<0, 1, 5, 6, 9>>, forte_num |-> <<"5", "-", "3", "3">>],
       [prime_form |-> <<0, 2, 3, 4, 6>>, forte_num |-> <<"5", "-", "3", "4">>],
       [prime_form |-> <<0, 2, 3, 4, 7>>, forte_num |-> <<"5", "-", "3", "5">>],
       [prime_form |-> <<0, 2, 3, 5, 7>>, forte_num |-> <<"5", "-", "3", "6">>],
       [prime_form |-> <<0, 2, 3, 5, 8>>, forte_num |-> <<"5", "-", "3", "7">>],
       [prime_form |-> <<0, 2, 4, 5, 8>>, forte_num |-> <<"5", "-", "3", "8">>]
     >>
  @@ 6 :> <<
       [prime_form |-> <<0, 1, 2, 3, 4, 5>>, forte_num |-> <<"6", "-", "1">>],
       [prime_form |-> <<0, 1, 2, 3, 4, 6>>, forte_num |-> <<"6", "-", "2">>],
       [prime_form |-> <<0, 1, 2, 3, 4, 7>>, forte_num |-> <<"6", "-", "3">>],
       [prime_form |-> <<0, 1, 2, 3, 5, 6>>, forte_num |-> <<"6", "-", "4">>],
       [prime_form |-> <<0, 1, 2, 3, 5, 7>>, forte_num |-> <<"6", "-", "5">>],
       [prime_form |-> <<0, 1, 2, 3, 5, 8>>, forte_num |-> <<"6", "-", "6">>],
       [prime_form |-> <<0, 1, 2, 3, 6, 7>>, forte_num |-> <<"6", "-", "7">>],
       [prime_form |-> <<0, 1, 2, 3, 6, 8>>, forte_num |-> <<"6", "-", "8">>],
       [prime_form |-> <<0, 1, 2, 3, 6, 9>>, forte_num |-> <<"6", "-", "9">>],
       [prime_form |-> <<0, 1, 2, 4, 5, 6>>, forte_num |-> <<"6", "-", "1", "0">>],
       [prime_form |-> <<0, 1, 2, 4, 5, 7>>, forte_num |-> <<"6", "-", "1", "1">>],
       [prime_form |-> <<0, 1, 2, 4, 5, 8>>, forte_num |-> <<"6", "-", "1", "2">>],
       [prime_form |-> <<0, 1, 2, 4, 6, 7>>, forte_num |-> <<"6", "-", "1", "3">>],
       [prime_form |-> <<0, 1, 2, 4, 6, 8>>, forte_num |-> <<"6", "-", "1", "4">>],
       [prime_form |-> <<0, 1, 2, 4, 6, 9>>, forte_num |-> <<"6", "-", "1", "5">>],
       [prime_form |-> <<0, 1, 2, 4, 7, 8>>, forte_num |-> <<"6", "-", "1", "6">>],
       [prime_form |-> <<0, 1, 2, 5, 6, 7>>, forte_num |-> <<"6", "-", "1", "7">>],
       [prime_form |-> <<0, 1, 2, 5, 6, 8>>, forte_num |-> <<"6", "-", "1", "8">>],
       [prime_form |-> <<0, 1, 2, 5, 6, 9>>, forte_num |-> <<"6", "-", "1", "9">>],
       [prime_form |-> <<0, 1, 2, 5, 7, 8>>, forte_num |-> <<"6", "-", "2", "0">>],
       [prime_form |-> <<0, 1, 2, 6, 7, 8>>, forte_num |-> <<"6", "-", "2", "1">>],
       [prime_form |-> <<0, 1, 2, 6, 7, 9>>, forte_num |-> <<"6", "-", "2", "2">>],
       [prime_form |-> <<0, 1, 2, 6, 8, 10>>, forte_num |-> <<"6", "-", "2", "3">>],
       [prime_form |-> <<0, 1, 3, 4, 5, 6>>, forte_num |-> <<"6", "-", "2", "4">>],
       [prime_form |-> <<0, 1, 3, 4, 5, 7>>, forte_num |-> <<"6", "-", "2", "5">>],
       [prime_form |-> <<0, 1, 3, 4, 5, 8>>, forte_num |-> <<"6", "-", "2", "6">>],
       [prime_form |-> <<0, 1, 3, 4, 6, 7>>, forte_num |-> <<"6", "-", "2", "7">>],
       [prime_form |-> <<0, 1, 3, 4, 6, 8>>, forte_num |-> <<"6", "-", "2", "8">>],
       [prime_form |-> <<0, 1, 3, 4, 6, 9>>, forte_num |-> <<"6", "-", "2", "9">>],
       [prime_form |-> <<0, 1, 3, 4, 7, 8>>, forte_num |-> <<"6", "-", "3", "0">>],
       [prime_form |-> <<0, 1, 3, 5, 6, 7>>, forte_num |-> <<"6", "-", "3", "1">>],
       [prime_form |-> <<0, 1, 3, 5, 6, 8>>, forte_num |-> <<"6", "-", "3", "2">>],
       [prime_form |-> <<0, 1, 3, 5, 6, 9>>, forte_num |-> <<"6", "-", "3", "3">>],
       [prime_form |-> <<0, 1, 3, 5, 7, 8>>, forte_num |-> <<"6", "-", "3", "4">>],
       [prime_form |-> <<0, 1, 3, 6, 7, 8>>, forte_num |-> <<"6", "-", "3", "5">>],
       [prime_form |-> <<0, 1, 3, 6, 7, 9>>, forte_num |-> <<"6", "-", "3", "6">>],
       [prime_form |-> <<0, 1, 3, 6, 8, 9>>, forte_num |-> <<"6", "-", "3", "7">>],
       [prime_form |-> <<0, 1, 4, 5, 6, 7>>, forte_num |-> <<"6", "-", "3", "8">>],
       [prime_form |-> <<0, 1, 4, 5, 6, 8>>, forte_num |-> <<"6", "-", "3", "9">>],
       [prime_form |-> <<0, 1, 4, 5, 6, 9>>, forte_num |-> <<"6", "-", "4", "0">>],
       [prime_form |-> <<0, 1, 4, 5, 7, 8>>, forte_num |-> <<"6", "-", "4", "1">>],
       [prime_form |-> <<0, 1, 4, 6, 7, 8>>, forte_num |-> <<"6", "-", "4", "2">>],
       [prime_form |-> <<0, 1, 4, 6, 7, 9>>, forte_num |-> <<"6", "-", "4", "3">>],
       [prime_form |-> <<0, 1, 4, 6, 8, 9>>, forte_num |-> <<"6", "-", "4", "4">>],
       [prime_form |-> <<0, 1, 5, 6, 7, 8>>, forte_num |-> <<"6", "-", "4", "5">>],
       [prime_form |-> <<0, 1, 5, 6, 7, 9>>, forte_num |-> <<"6", "-", "4", "6">>],
       [prime_form |-> <<0, 1, 5, 6, 8, 9>>, forte_num |-> <<"6", "-", "4", "7">>],
       [prime_form |-> <<0, 2, 3, 4, 5, 7>>, forte_num |-> <<"6", "-", "4", "8">>],
       [prime_form |-> <<0, 2, 3, 4, 6, 8>>, forte_num |-> <<"6", "-", "4", "9">>],
       [prime_form |-> <<0, 2, 3, 5, 6, 8>>, forte_num |-> <<"6", "-", "5", "0">>],
       [prime_form |-> <<0, 2, 4, 6, 8, 10>>, forte_num |-> <<"6", "-", "3", "5">>]
     >>
  @@ 7 :> <<
       [prime_form |-> <<0, 1, 2, 3, 4, 5, 6>>, forte_num |-> <<"7", "-", "1">>],
       [prime_form |-> <<0, 1, 2, 3, 4, 5, 7>>, forte_num |-> <<"7", "-", "2">>],
       [prime_form |-> <<0, 1, 2, 3, 4, 5, 8>>, forte_num |-> <<"7", "-", "3">>],
       [prime_form |-> <<0, 1, 2, 3, 4, 6, 7>>, forte_num |-> <<"7", "-", "4">>],
       [prime_form |-> <<0, 1, 2, 3, 4, 6, 8>>, forte_num |-> <<"7", "-", "5">>],
       [prime_form |-> <<0, 1, 2, 3, 4, 6, 9>>, forte_num |-> <<"7", "-", "6">>],
       [prime_form |-> <<0, 1, 2, 3, 5, 6, 7>>, forte_num |-> <<"7", "-", "7">>],
       [prime_form |-> <<0, 1, 2, 3, 5, 6, 8>>, forte_num |-> <<"7", "-", "8">>],
       [prime_form |-> <<0, 1, 2, 3, 5, 6, 9>>, forte_num |-> <<"7", "-", "9">>],
       [prime_form |-> <<0, 1, 2, 3, 5, 7, 8>>, forte_num |-> <<"7", "-", "1", "0">>],
       [prime_form |-> <<0, 1, 2, 3, 6, 7, 8>>, forte_num |-> <<"7", "-", "1", "1">>],
       [prime_form |-> <<0, 1, 2, 3, 6, 7, 9>>, forte_num |-> <<"7", "-", "1", "2">>],
       [prime_form |-> <<0, 1, 2, 3, 6, 8, 9>>, forte_num |-> <<"7", "-", "1", "3">>],
       [prime_form |-> <<0, 1, 2, 4, 5, 6, 7>>, forte_num |-> <<"7", "-", "1", "4">>],
       [prime_form |-> <<0, 1, 2, 4, 5, 6, 8>>, forte_num |-> <<"7", "-", "1", "5">>],
       [prime_form |-> <<0, 1, 2, 4, 5, 6, 9>>, forte_num |-> <<"7", "-", "1", "6">>],
       [prime_form |-> <<0, 1, 2, 4, 5, 7, 8>>, forte_num |-> <<"7", "-", "1", "7">>],
       [prime_form |-> <<0, 1, 2, 4, 6, 7, 8>>, forte_num |-> <<"7", "-", "1", "8">>],
       [prime_form |-> <<0, 1, 2, 4, 6, 7, 9>>, forte_num |-> <<"7", "-", "1", "9">>],
       [prime_form |-> <<0, 1, 2, 4, 6, 8, 9>>, forte_num |-> <<"7", "-", "2", "0">>],
       [prime_form |-> <<0, 1, 2, 5, 6, 7, 8>>, forte_num |-> <<"7", "-", "2", "1">>],
       [prime_form |-> <<0, 1, 2, 5, 6, 7, 9>>, forte_num |-> <<"7", "-", "2", "2">>],
       [prime_form |-> <<0, 1, 2, 5, 6, 8, 9>>, forte_num |-> <<"7", "-", "2", "3">>],
       [prime_form |-> <<0, 1, 2, 6, 7, 8, 9>>, forte_num |-> <<"7", "-", "2", "4">>],
       [prime_form |-> <<0, 1, 3, 4, 5, 6, 7>>, forte_num |-> <<"7", "-", "2", "5">>],
       [prime_form |-> <<0, 1, 3, 4, 5, 6, 8>>, forte_num |-> <<"7", "-", "2", "6">>],
       [prime_form |-> <<0, 1, 3, 4, 5, 6, 9>>, forte_num |-> <<"7", "-", "2", "7">>],
       [prime_form |-> <<0, 1, 3, 4, 5, 7, 8>>, forte_num |-> <<"7", "-", "2", "8">>],
       [prime_form |-> <<0, 1, 3, 4, 6, 7, 8>>, forte_num |-> <<"7", "-", "2", "9">>],
       [prime_form |-> <<0, 1, 3, 4, 6, 7, 9>>, forte_num |-> <<"7", "-", "3", "0">>],
       [prime_form |-> <<0, 1, 3, 5, 6, 7, 8>>, forte_num |-> <<"7", "-", "3", "1">>],
       [prime_form |-> <<0, 1, 3, 5, 6, 7, 9>>, forte_num |-> <<"7", "-", "3", "2">>],
       [prime_form |-> <<0, 1, 4, 5, 6, 7, 8>>, forte_num |-> <<"7", "-", "3", "3">>],
       [prime_form |-> <<0, 1, 4, 5, 6, 7, 9>>, forte_num |-> <<"7", "-", "3", "4">>],
       [prime_form |-> <<0, 1, 4, 5, 6, 8, 9>>, forte_num |-> <<"7", "-", "3", "5">>],
       [prime_form |-> <<0, 1, 5, 6, 7, 8, 9>>, forte_num |-> <<"7", "-", "3", "6">>],
       [prime_form |-> <<0, 2, 3, 4, 5, 6, 8>>, forte_num |-> <<"7", "-", "3", "7">>],
       [prime_form |-> <<0, 2, 3, 4, 5, 7, 9>>, forte_num |-> <<"7", "-", "3", "8">>]
     >>
  @@ 8 :> <<
       [prime_form |-> <<0, 1, 2, 3, 4, 5, 6, 7>>, forte_num |-> <<"8", "-", "1">>],
       [prime_form |-> <<0, 1, 2, 3, 4, 5, 6, 8>>, forte_num |-> <<"8", "-", "2">>],
       [prime_form |-> <<0, 1, 2, 3, 4, 5, 6, 9>>, forte_num |-> <<"8", "-", "3">>],
       [prime_form |-> <<0, 1, 2, 3, 4, 5, 7, 8>>, forte_num |-> <<"8", "-", "4">>],
       [prime_form |-> <<0, 1, 2, 3, 4, 5, 7, 9>>, forte_num |-> <<"8", "-", "5">>],
       [prime_form |-> <<0, 1, 2, 3, 4, 6, 7, 8>>, forte_num |-> <<"8", "-", "6">>],
       [prime_form |-> <<0, 1, 2, 3, 4, 6, 7, 9>>, forte_num |-> <<"8", "-", "7">>],
       [prime_form |-> <<0, 1, 2, 3, 4, 6, 8, 9>>, forte_num |-> <<"8", "-", "8">>],
       [prime_form |-> <<0, 1, 2, 3, 5, 6, 7, 8>>, forte_num |-> <<"8", "-", "9">>],
       [prime_form |-> <<0, 1, 2, 3, 5, 6, 7, 9>>, forte_num |-> <<"8", "-", "1", "0">>],
       [prime_form |-> <<0, 1, 2, 3, 5, 6, 8, 9>>, forte_num |-> <<"8", "-", "1", "1">>],
       [prime_form |-> <<0, 1, 2, 3, 6, 7, 8, 9>>, forte_num |-> <<"8", "-", "1", "2">>],
       [prime_form |-> <<0, 1, 2, 4, 5, 6, 7, 8>>, forte_num |-> <<"8", "-", "1", "3">>],
       [prime_form |-> <<0, 1, 2, 4, 5, 6, 7, 9>>, forte_num |-> <<"8", "-", "1", "4">>],
       [prime_form |-> <<0, 1, 2, 4, 5, 6, 8, 9>>, forte_num |-> <<"8", "-", "1", "5">>],
       [prime_form |-> <<0, 1, 2, 4, 6, 7, 8, 9>>, forte_num |-> <<"8", "-", "1", "6">>],
       [prime_form |-> <<0, 1, 2, 5, 6, 7, 8, 9>>, forte_num |-> <<"8", "-", "1", "7">>],
       [prime_form |-> <<0, 1, 3, 4, 5, 6, 7, 8>>, forte_num |-> <<"8", "-", "1", "8">>],
       [prime_form |-> <<0, 1, 3, 4, 5, 6, 7, 9>>, forte_num |-> <<"8", "-", "1", "9">>],
       [prime_form |-> <<0, 1, 3, 4, 5, 6, 8, 9>>, forte_num |-> <<"8", "-", "2", "0">>],
       [prime_form |-> <<0, 1, 3, 4, 6, 7, 8, 9>>, forte_num |-> <<"8", "-", "2", "1">>],
       [prime_form |-> <<0, 1, 3, 5, 6, 7, 8, 9>>, forte_num |-> <<"8", "-", "2", "2">>],
       [prime_form |-> <<0, 1, 4, 5, 6, 7, 8, 9>>, forte_num |-> <<"8", "-", "2", "3">>],
       [prime_form |-> <<0, 2, 3, 4, 5, 6, 7, 8>>, forte_num |-> <<"8", "-", "2", "4">>],
       [prime_form |-> <<0, 2, 3, 4, 5, 6, 7, 9>>, forte_num |-> <<"8", "-", "2", "5">>],
       [prime_form |-> <<0, 2, 3, 4, 5, 6, 8, 9>>, forte_num |-> <<"8", "-", "2", "6">>],
       [prime_form |-> <<0, 2, 3, 4, 5, 7, 8, 9>>, forte_num |-> <<"8", "-", "2", "7">>],
       [prime_form |-> <<0, 2, 3, 4, 6, 7, 8, 9>>, forte_num |-> <<"8", "-", "2", "8">>],
       [prime_form |-> <<0, 2, 4, 5, 6, 7, 8, 9>>, forte_num |-> <<"8", "-", "2", "9">>]
     >>
  @@ 9 :> <<
       [prime_form |-> <<0, 1, 2, 3, 4, 5, 6, 7, 8>>, forte_num |-> <<"9", "-", "1">>],
       [prime_form |-> <<0, 1, 2, 3, 4, 5, 6, 7, 9>>, forte_num |-> <<"9", "-", "2">>],
       [prime_form |-> <<0, 1, 2, 3, 4, 5, 6, 8, 9>>, forte_num |-> <<"9", "-", "3">>],
       [prime_form |-> <<0, 1, 2, 3, 4, 5, 7, 8, 9>>, forte_num |-> <<"9", "-", "4">>],
       [prime_form |-> <<0, 1, 2, 3, 4, 6, 7, 8, 9>>, forte_num |-> <<"9", "-", "5">>],
       [prime_form |-> <<0, 1, 2, 3, 5, 6, 7, 8, 9>>, forte_num |-> <<"9", "-", "6">>],
       [prime_form |-> <<0, 1, 2, 4, 5, 6, 7, 8, 9>>, forte_num |-> <<"9", "-", "7">>],
       [prime_form |-> <<0, 1, 3, 4, 5, 6, 7, 8, 9>>, forte_num |-> <<"9", "-", "8">>],
       [prime_form |-> <<0, 2, 3, 4, 5, 6, 7, 8, 9>>, forte_num |-> <<"9", "-", "9">>],
       [prime_form |-> <<0, 1, 2, 3, 4, 5, 6, 7, 10>>, forte_num |-> <<"9", "-", "1", "0">>],
       [prime_form |-> <<0, 1, 2, 3, 4, 5, 6, 8, 10>>, forte_num |-> <<"9", "-", "1", "1">>],
       [prime_form |-> <<0, 1, 2, 3, 4, 5, 7, 8, 10>>, forte_num |-> <<"9", "-", "1", "2">>]
     >>
  @@ 10 :> <<
       [prime_form |-> <<0, 1, 2, 3, 4, 5, 6, 7, 8, 9>>, forte_num |-> <<"1", "0", "-", "1">>],
       [prime_form |-> <<0, 1, 2, 3, 4, 5, 6, 7, 8, 10>>, forte_num |-> <<"1", "0", "-", "2">>],
       [prime_form |-> <<0, 1, 2, 3, 4, 5, 6, 7, 9, 10>>, forte_num |-> <<"1", "0", "-", "3">>],
       [prime_form |-> <<0, 1, 2, 3, 4, 5, 6, 8, 9, 10>>, forte_num |-> <<"1", "0", "-", "4">>],
       [prime_form |-> <<0, 1, 2, 3, 4, 5, 7, 8, 9, 10>>, forte_num |-> <<"1", "0", "-", "5">>],
       [prime_form |-> <<0, 1, 2, 3, 4, 6, 7, 8, 9, 10>>, forte_num |-> <<"1", "0", "-", "6">>]
     >>
  @@ 11 :> <<
       [prime_form |-> <<0, 1, 2, 3, 4, 5, 6, 7, 8, 9, 10>>, forte_num |-> <<"1", "1", "-", "1">>]
     >>
  @@ 12 :> <<
       [prime_form |-> <<0, 1, 2, 3, 4, 5, 6, 7, 8, 9, 10, 11>>, forte_num |-> <<"1", "2", "-", "1">>]
     >>

\* cls.FORTE_TABLE[cardinality].get(prime_form)
TableGet(cardinality, key) ==
  LET items == FORTE_TABLE[cardinality]
      hits == {i \in DOMAIN items : items[i].prime_form = key}
  IN  IF hits = {} THEN None
      ELSE Some(items[CHOOSE i \in hits : TRUE].forte_num)

get_forte_number(pitch_class_set) ==
  LET cardinality == len(pitch_class_set)
  IN  IF cardinality \notin DOMAIN FORTE_TABLE THEN None
      ELSE TableGet(cardinality, prime_form(pitch_class_set))

\* What a call returns: [outcome |-> "ok", value |-> v] for a value,
\* [outcome |-> "None"] for None, [outcome |-> "raise"] for an exception that
\* leaves the call; value is the empty set when there is none.
Ok(v) == [outcome |-> "ok", value |-> v]

NoneResult == [outcome |-> "None", value |-> PitchClassSet(<<>>)]

Raised == [outcome |-> "raise", value |-> PitchClassSet(<<>>)]

\* get_set_from_forte_number whose except clause catches nothing
get_set_from_forte_number_uncaught(forte_number) ==
  IF forte_number = None THEN Raised
  ELSE
    LET s == forte_number[1]
        parts == split(s, "-")
    IN  IF Len(parts) # 2 THEN Raised
        ELSE IF ~IntOk(parts[1]) \/ ~IntOk(parts[2]) THEN Raised
        ELSE
          LET cardinality == int(parts[1])
          IN  IF cardinality \notin DOMAIN FORTE_TABLE THEN NoneResult
              ELSE
                LET items == FORTE_TABLE[cardinality]
                    hits == {i \in DOMAIN items : items[i].forte_num = s}
                IN  IF hits = {} THEN NoneResult
                    ELSE LET first == CHOOSE i \in hits : \A j \in hits : i <= j
                         IN  Ok(PitchClassSet(items[first].prime_form))

\* the argument is an Optional[str]: get_forte_number hands its result on.
\* None has no split: AttributeError, which the except clause does not name.
get_set_from_forte_number(forte_number) ==
  IF forte_number = None THEN Raised
  ELSE
    LET s == forte_number[1]
        parts == split(s, "-")
    IN  IF Len(parts) # 2 THEN NoneResult
        ELSE IF ~IntOk(parts[1]) \/ ~IntOk(parts[2]) THEN NoneResult
        ELSE
          LET cardinality == int(parts[1])
          IN  IF cardinality \notin DOMAIN FORTE_TABLE THEN NoneResult
              ELSE
                LET items == FORTE_TABLE[cardinality]
                    hits == {i \in DOMAIN items : items[i].forte_num = s}
                IN  IF hits = {} THEN NoneResult
                    ELSE LET first == CHOOSE i \in hits : \A j \in hits : i <= j
                         IN  Ok(PitchClassSet(items[first].prime_form))

get_all_sets_by_cardinality(cardinality) ==
  IF cardinality \notin DOMAIN FORTE_TABLE THEN <<>>
  ELSE [i \in DOMAIN FORTE_TABLE[cardinality] |->
          [set |-> PitchClassSet(FORTE_TABLE[cardinality][i].prime_form),
           forte_number |-> FORTE_TABLE[cardinality][i].forte_num]]

\* returns Optional[List[int]]; value is the empty list when there is none
get_interval_vector_from_forte(forte_number) ==
  LET r == get_set_from_forte_number(forte_number)
  IN  IF r.outcome = "raise" THEN [outcome |-> "raise", value |-> <<>>]
      ELSE IF r.outcome = "None" THEN [outcome |-> "None", value |-> <<>>]
      ELSE Ok(interval_vector(r.value))

\* for cardinality in cls.FORTE_TABLE: for ... in cls.FORTE_TABLE[cardinality]
\* .items(): every item of the table, in the order the two loops visit them
AllItems ==
  FORTE_TABLE[1] \o FORTE_TABLE[2] \o FORTE_TABLE[3] \o FORTE_TABLE[4]
    \o FORTE_TABLE[5] \o FORTE_TABLE[6] \o FORTE_TABLE[7] \o FORTE_TABLE[8]
    \o FORTE_TABLE[9] \o FORTE_TABLE[10] \o FORTE_TABLE[11] \o FORTE_TABLE[12]

\* pcs = PitchClassSet(list(prime_form)); pcs.interval_vector(): what the
\* loop body computes for each item, item by item
ItemVectors ==
  [i \in DOMAIN AllItems |->
     interval_vector(PitchClassSet(AllItems[i].prime_form))]

\* find_similar_sets that keeps the entries labelled forte_number
find_similar_sets_with_self(forte_number) ==
  LET r == get_set_from_forte_number(forte_number)
  IN  IF r.outcome = "raise" THEN [outcome |-> "raise", value |-> <<>>]
      ELSE IF r.outcome = "None" THEN Ok(<<>>)
      ELSE
        LET target_iv == interval_vector(r.value)
            similar_idx ==
              SelectSeq([i \in DOMAIN AllItems |-> i],
                LAMBDA i : ItemVectors[i] = target_iv)
        IN  Ok([k \in DOMAIN similar_idx |-> AllItems[similar_idx[k]].forte_num])

\* returns List[str]
find_similar_sets(forte_number) ==
  LET r == get_set_from_forte_number(forte_number)
  IN  IF r.outcome = "raise" THEN [outcome |-> "raise", value |-> <<>>]
      ELSE IF r.outcome = "None" THEN Ok(<<>>)
      ELSE
        LET target_iv == interval_vector(r.value)
            similar_idx ==
              SelectSeq([i \in DOMAIN AllItems |-> i],
                LAMBDA i : /\ ItemVectors[i] = target_iv
                           /\ AllItems[i].forte_num # forte_number[1])
        IN  Ok([k \in DOMAIN similar_idx |-> AllItems[similar_idx[k]].forte_num])

\* returns Optional[str]
get_z_partner(pitch_class_set) ==
  LET forte_number == get_forte_number(pitch_class_set)
  IN  IF forte_number = None THEN None
      ELSE
        LET target_iv == interval_vector(pitch_class_set)
            cardinality == len(pitch_class_set)
        IN  IF cardinality \notin DOMAIN FORTE_TABLE THEN None
            ELSE
              LET items == FORTE_TABLE[cardinality]
                  hits ==
                    {i \in DOMAIN items :
                       /\ items[i].forte_num # forte_number[1]
                       /\ interval_vector(PitchClassSet(items[i].prime_form))
                            = target_iv}
              IN  IF hits = {} THEN None
                  ELSE LET first == CHOOSE i \in hits : \A j \in hits : i <= j
                       IN  Some(items[first].forte_num)

(***************************************************************************)
(* parse_pitch_classes (gui/utils/validators.py).  The whitespace of a     *)
(* text is " ".                                                            *)
(***************************************************************************)
\* returns of Optional[List[int]]: None
NoList == [outcome |-> "None", value |-> <<>>]

\* re.match(r'^\d+-\d+[AB]?$', text) finds a match
re_match_forte(text) ==
  \E d \in DOMAIN text :
    /\ text[d] = "-"
    /\ d > 1
    /\ \A i \in 1..(d - 1) : text[i] \in DigitChars
    /\ \E e \in (d + 1)..Len(text) :
         /\ \A i \in (d + 1)..e : text[i] \in DigitChars
         /\ \/ e = Len(text)
            \/ e = Len(text) - 1 /\ text[Len(text)] \in {"A", "B"}

\* re.sub(r'[\[\]{}()]', '', text)
re_sub_brackets(text) ==
  SelectSeq(text, LAMBDA ch : ch \notin {"[", "]", "{", "}", "(", ")"})

RECURSIVE re_split(_)
\* re.split(r'[,\s]+', text)
re_split(text) ==
  IF \A i \in DOMAIN text : text[i] \notin {",", " "} THEN <<text>>
  ELSE LET i == CHOOSE j \in DOMAIN text :
                  /\ text[j] \in {",", " "}
                  /\ \A h \in 1..(j - 1) : text[h] \notin {",", " "}
           after == {j \in (i + 1)..Len(text) : text[j] \notin {",", " "}}
           next == IF after = {} THEN Len(text) + 1
                   ELSE CHOOSE j \in after : \A h \in after : j <= h
       IN  <<SubSeq(text, 1, i - 1)>>
             \o re_split(SubSeq(text, next, Len(text)))

RECURSIVE parse_parts_mod(_, _)
\* the loop that reduces an integer modulo 12 where the code rejects it
parse_parts_mod(parts, pitch_classes) ==
  IF parts = <<>> THEN Ok(pitch_classes)
  ELSE LET part == strip(Head(parts))
       IN  IF part = <<>> THEN parse_parts_mod(Tail(parts), pitch_classes)
           ELSE IF ~IntOk(part) THEN NoList
           ELSE parse_parts_mod(Tail(parts),
                  Append(pitch_classes, PyMod(int(part), PCMod)))

RECURSIVE parse_parts(_, _)
\* for part in parts: ..., from the parts still to visit and the
\* pitch_classes collected so far
parse_parts(parts, pitch_classes) ==
  IF parts = <<>> THEN Ok(pitch_classes)
  ELSE LET part == strip(Head(parts))
       IN  IF part = <<>> THEN parse_parts(Tail(parts), pitch_classes)
           ELSE IF ~IntOk(part) THEN NoList
           ELSE LET pc == int(part)
                IN  IF 0 <= pc /\ pc <= PCMod - 1
                    THEN parse_parts(Tail(parts), Append(pitch_classes, pc))
                    ELSE NoList

\* the loop that removes duplicates while preserving order
unique_pcs(pitch_classes) ==
  LET kept == SelectSeq([i \in DOMAIN pitch_classes |-> i],
                LAMBDA i : \A j \in 1..(i - 1) :
                             pitch_classes[j] # pitch_classes[i])
  IN  [k \in DOMAIN kept |-> pitch_classes[kept[k]]]

\* returns Optional[List[int]]
parse_pitch_classes(input) ==
  LET text == strip(input)
      pcs_found == get_set_from_forte_number(Some(text))
      parsed == parse_parts(re_split(re_sub_brackets(text)), <<>>)
  IN  IF text = <<>> THEN NoList
      ELSE IF re_match_forte(text) /\ pcs_found.outcome = "raise" THEN NoList
      ELSE IF /\ re_match_forte(text)
              /\ pcs_found.outcome = "ok"
              /\ len(pcs_found.value) # 0
        THEN Ok(sorted(Range(pcs_found.value.pitch_classes)))
      ELSE IF parsed.outcome = "None" THEN NoList
      ELSE IF parsed.value = <<>> THEN NoList
      ELSE Ok(unique_pcs(parsed.value))

(***************************************************************************)
(* class SettingsManager (gui/utils/settings_manager.py), the history      *)
(* keys.  self.settings is a QSettings store that works: value(key,        *)
(* default) returns what setValue stored under key last, as a list, and    *)
(* default when nothing was stored.  The store is the function from keys   *)
(* to Optional[list].                                                      *)
(***************************************************************************)
MaxRecentSets == 10

MaxRecentForte == 5

HistoryKeys == {"history/recent_sets", "history/recent_forte"}

\* QSettings('SetTheory', 'SetTheoryApp') with nothing stored
QSettings == [key \in HistoryKeys |-> None]

\* self.defaults
defaults == [key \in HistoryKeys |-> <<>>]

\* SettingsManager.get; default is Optional
get(self, key, default) ==
  LET d == IF default = None THEN defaults[key] ELSE default[1]
  IN  IF self[key] = None THEN d ELSE self[key][1]

\* SettingsManager.set
set(self, key, value) == [self EXCEPT ![key] = Some(value)]

\* list.remove(x): the list without the first element equal to x
list_remove(l, x) ==
  LET first == CHOOSE i \in DOMAIN l : l[i] = x /\ \A j \in 1..(i - 1) : l[j] # x
  IN  SubSeq(l, 1, first - 1) \o SubSeq(l, first + 1, Len(l))

\* l[:n] for n >= 0
list_head(l, n) == SubSeq(l, 1, min2(n, Len(l)))

\* add_recent_set that appends the new entry at the end
add_recent_set_append(self, pitch_classes) ==
  LET recent == get(self, "history/recent_sets", Some(<<>>))
      removed == IF pitch_classes \in Range(recent)
                 THEN list_remove(recent, pitch_classes) ELSE recent
      inserted == removed \o <<pitch_classes>>
  IN  set(self, "history/recent_sets", list_head(inserted, MaxRecentSets))

\* the store after add_recent_set(pitch_classes)
add_recent_set(self, pitch_classes) ==
  LET recent == get(self, "history/recent_sets", Some(<<>>))
      removed == IF pitch_classes \in Range(recent)
                 THEN list_remove(recent, pitch_classes) ELSE recent
      inserted == <<pitch_classes>> \o removed
  IN  set(self, "history/recent_sets", list_head(inserted, MaxRecentSets))

get_recent_sets(self) == get(self, "history/recent_sets", Some(<<>>))

\* the store after add_recent_forte(forte_number)
add_recent_forte(self, forte_number) ==
  LET recent == get(self, "history/recent_forte", Some(<<>>))
      removed == IF forte_number \in Range(recent)
                 THEN list_remove(recent, forte_number) ELSE recent
      inserted == <<forte_number>> \o removed
  IN  set(self, "history/recent_forte", list_head(inserted, MaxRecentForte))

get_recent_forte(self) == get(self, "history/recent_forte", Some(<<>>))

\* the store after clear_history()
clear_history(self) ==
  set(set(self, "history/recent_sets", <<>>), "history/recent_forte", <<>>)

(***************************************************************************)
(* Inputs.                                                                 *)
(***************************************************************************)
\* the lists a caller hands to the constructor
InputLists == UNION {[1..k -> NRange] : k \in 0..MaxLen}

\* the second operand of union and intersection: a constructed set, or the
\* retrograde of one
Others ==
  LET built == {PitchClassSet(sorted(S)) : S \in SUBSET (0..MaxOtherPc)}
  IN  built \cup {retrograde(o) : o \in built}

\* the characters of the label strings a caller types
LabelChars == {"0", "1", "3", "-", "a", " ", "+", "_"}

\* the labels that occur in the table
TableLabels == {AllItems[i].forte_num : i \in DOMAIN AllItems}

\* the label strings handed to the lookups: every label of the table and
\* every short string over LabelChars
LabelInputs ==
  TableLabels \cup UNION {[1..k -> LabelChars] : k \in 0..MaxLabelLen}

\* the characters of the texts a caller types into the input field
TextChars == {"0", "1", "3", "-", ",", " ", "[", "a", "+"}

\* the texts handed to parse_pitch_classes: every label of the table and
\* every short string over TextChars
TextInputs ==
  TableLabels \cup UNION {[1..k -> TextChars] : k \in 0..MaxTextLen}

\* the sizes a caller asks find_subsets and find_supersets for
SizeInputs == NRange

\* the sets a caller compares pcs with: a small set, or a set derived from
\* pcs
Partners(self) ==
  Others \cup {complement(self), inversion(self, 0), retrograde(self),
               remove_pitch_class(self, 0)}

\* the pitch-class lists a caller records next: the first singleton when
\* the history is empty, otherwise the singleton after the most recent
\* entry or one of the two most recent entries again
RecentSetInputs(recent) ==
  IF recent = <<>> THEN {<<0>>}
  ELSE {<<(recent[1][1] + 1) % PCMod>>}
         \cup {recent[i] : i \in DOMAIN recent \cap 1..2}

\* the Forte numbers a caller records: the labels of the dyads of the table
RecentForteInputs ==
  {FORTE_TABLE[2][i].forte_num : i \in DOMAIN FORTE_TABLE[2]}

(***************************************************************************)
(* State: the instance the caller holds (pcs), the call made last (op,     *)
(* arg), and what that call returned: a PitchClassSet (result), a list of  *)
(* integers (out), an Optional[str] (label), a list of (set, label) pairs  *)
(* (listing), a list of labels (similar); outcome tells a returned value   *)
(* from None and from an exception.  query is the label string handed to   *)
(* a lookup.  op = "none": no call is pending.                             *)
(* Where the identity of instances matters, heap is the sequence of the    *)
(* instances that exist, an instance's identity is its index in heap, and  *)
(* ret holds the identities a call returned.                               *)
(***************************************************************************)
VARIABLES pcs, op, arg, result, out, label, outcome, listing,
          query, similar, heap, ret, subsets, relation, settings

vars == <<pcs, op, arg, result, out, label, outcome, listing,
          query, similar, heap, ret, subsets, relation, settings>>

SetOps == {"PitchClassSet", "add_pitch_class", "remove_pitch_class",
           "transposition", "inversion", "rotation", "retrograde",
           "retrograde_inversion", "complement", "union", "intersection"}

Init ==
  \E list \in InputLists :
    /\ pcs = PitchClassSet(list)
    /\ op = "PitchClassSet"
    /\ arg = list
    /\ result = pcs
    /\ out = <<>>
    /\ label = None
    /\ outcome = "ok"
    /\ listing = <<>>
  /\ query = <<>>
  /\ similar = <<>>
  /\ heap = <<>>
  /\ ret = <<>>
  /\ subsets = <<>>
  /\ relation = <<>>
  /\ settings = QSettings

AddPitchClass ==
  \E n \in NRange :
    /\ op = "none"
    /\ op' = "add_pitch_class"
    /\ arg' = <<n>>
    /\ result' = add_pitch_class(pcs, n)
    /\ UNCHANGED <<pcs, out, label, outcome, listing, subsets,
                   relation, settings>>
    /\ UNCHANGED <<query, similar, heap, ret, subsets, relation, settings>>

RemovePitchClass ==
  \E n \in NRange :
    /\ op = "none"
    /\ op' = "remove_pitch_class"
    /\ arg' = <<n>>
    /\ result' = remove_pitch_class(pcs, n)
    /\ UNCHANGED <<pcs, out, label, outcome, listing, subsets,
                   relation, settings>>
    /\ UNCHANGED <<query, similar, heap, ret, subsets, relation, settings>>

Transposition ==
  \E n \in NRange :
    /\ op = "none"
    /\ op' = "transposition"
    /\ arg' = <<n>>
    /\ result' = transposition(pcs, n)
    /\ UNCHANGED <<pcs, out, label, outcome, listing, subsets,
                   relation, settings>>
    /\ UNCHANGED <<query, similar, heap, ret, subsets, relation, settings>>

Inversion ==
  \E n \in NRange :
    /\ op = "none"
    /\ op' = "inversion"
    /\ arg' = <<n>>
    /\ result' = inversion(pcs, n)
    /\ UNCHANGED <<pcs, out, label, outcome, listing, subsets,
                   relation, settings>>
    /\ UNCHANGED <<query, similar, heap, ret, subsets, relation, settings>>

Rotation ==
  \E n \in NRange :
    /\ op = "none"
    /\ op' = "rotation"
    /\ arg' = <<n>>
    /\ result' = rotation(pcs, n)
    /\ UNCHANGED <<pcs, out, label, outcome, listing, subsets,
                   relation, settings>>
    /\ UNCHANGED <<query, similar, heap, ret, subsets, relation, settings>>

Retrograde ==
  /\ op = "none"
  /\ op' = "retrograde"
  /\ arg' = <<>>
  /\ result' = retrograde(pcs)
  /\ UNCHANGED <<pcs, out, label, outcome, listing, subsets,
                 relation, settings>>
  /\ UNCHANGED <<query, similar, heap, ret, subsets, relation, settings>>

RetrogradeInversion ==
  \E n \in NRange :
    /\ op = "none"
    /\ op' = "retrograde_inversion"
    /\ arg' = <<n>>
    /\ result' = retrograde_inversion(pcs, n)
    /\ UNCHANGED <<pcs, out, label, outcome, listing, subsets,
                   relation, settings>>
    /\ UNCHANGED <<query, similar, heap, ret, subsets, relation, settings>>

Complement ==
  /\ op = "none"
  /\ op' = "complement"
  /\ arg' = <<>>
  /\ result' = complement(pcs)
  /\ UNCHANGED <<pcs, out, label, outcome, listing, subsets,
                 relation, settings>>
  /\ UNCHANGED <<query, similar, heap, ret, subsets, relation, settings>>

Union ==
  \E other \in Others :
    /\ op = "none"
    /\ op' = "union"
    /\ arg' = other.pitch_classes
    /\ result' = union(pcs, other)
    /\ UNCHANGED <<pcs, out, label, outcome, listing, subsets,
                   relation, settings>>
    /\ UNCHANGED <<query, similar, heap, ret, subsets, relation, settings>>

Intersection ==
  \E other \in Others :
    /\ op = "none"
    /\ op' = "intersection"
    /\ arg' = other.pitch_classes
    /\ result' = intersection(pcs, other)
    /\ UNCHANGED <<pcs, out, label, outcome, listing, subsets,
                   relation, settings>>
    /\ UNCHANGED <<query, similar, heap, ret, subsets, relation, settings>>

PrimeForm ==
  /\ op = "none"
  /\ op' = "prime_form"
  /\ arg' = <<>>
  /\ out' = prime_form(pcs)
  /\ UNCHANGED <<pcs, result, label, outcome, listing, subsets,
                 relation, settings>>
  /\ UNCHANGED <<query, similar, heap, ret, subsets, relation, settings>>

IntervalVector ==
  /\ op = "none"
  /\ op' = "interval_vector"
  /\ arg' = <<>>
  /\ out' = interval_vector(pcs)
  /\ UNCHANGED <<pcs, result, label, outcome, listing, subsets,
                 relation, settings>>
  /\ UNCHANGED <<query, similar, heap, ret, subsets, relation, settings>>

\* ForteClassification.get_forte_number(pcs)
GetForteNumber ==
  /\ op = "none"
  /\ op' = "get_forte_number"
  /\ label' = get_forte_number(pcs)
  /\ UNCHANGED <<pcs, arg, result, out, outcome, listing, subsets,
                 relation, settings>>
  /\ UNCHANGED <<query, similar, heap, ret, subsets, relation, settings>>

\* ForteClassification.get_set_from_forte_number on what get_forte_number(pcs)
\* returned
GetSetFromForteNumber ==
  /\ op = "get_forte_number"
  /\ op' = "get_set_from_forte_number"
  /\ LET r == get_set_from_forte_number(label)
     IN  outcome' = r.outcome /\ result' = r.value
  /\ UNCHANGED <<pcs, arg, out, label, listing, subsets, relation, settings>>
  /\ UNCHANGED <<query, similar, heap, ret, subsets, relation, settings>>

\* ForteClassification.get_all_sets_by_cardinality(k)
GetAllSetsByCardinality ==
  \E k \in NRange :
    /\ op = "none"
    /\ op' = "get_all_sets_by_cardinality"
    /\ arg' = <<k>>
    /\ listing' = get_all_sets_by_cardinality(k)
    /\ UNCHANGED <<pcs, result, out, label, outcome, subsets,
                   relation, settings>>
    /\ UNCHANGED <<query, similar, heap, ret, subsets, relation, settings>>

\* ForteClassification.get_set_from_forte_number(s) on a label string
LookupSet ==
  /\ op = "none"
  /\ op' = "get_set_from_forte_number"
  /\ \E s \in LabelInputs :
       /\ query' = s
       /\ LET r == get_set_from_forte_number(Some(s))
          IN  outcome' = r.outcome /\ result' = r.value
  /\ UNCHANGED <<pcs, arg, out, label, listing, similar, heap, ret,
                 subsets, relation, settings>>

\* ForteClassification.get_interval_vector_from_forte(s) on a label string
GetIntervalVectorFromForte ==
  /\ op = "none"
  /\ op' = "get_interval_vector_from_forte"
  /\ \E s \in LabelInputs :
       /\ query' = s
       /\ LET r == get_interval_vector_from_forte(Some(s))
          IN  outcome' = r.outcome /\ out' = r.value
  /\ UNCHANGED <<pcs, arg, result, label, listing, similar, heap,
                 ret, subsets, relation, settings>>

\* ForteClassification.find_similar_sets(s) on a label string
FindSimilarSets ==
  /\ op = "none"
  /\ op' = "find_similar_sets"
  /\ \E s \in LabelInputs :
       /\ query' = s
       /\ LET r == find_similar_sets(Some(s))
          IN  outcome' = r.outcome /\ similar' = r.value
  /\ UNCHANGED <<pcs, arg, result, out, label, listing, heap, ret,
                 subsets, relation, settings>>

\* ForteClassification.get_z_partner(pcs)
GetZPartner ==
  /\ op = "none"
  /\ op' = "get_z_partner"
  /\ label' = get_z_partner(pcs)
  /\ UNCHANGED <<pcs, arg, result, out, outcome, listing, subsets,
                 relation, settings>>
  /\ UNCHANGED <<query, similar, heap, ret, subsets, relation, settings>>

FindSubsets ==
  /\ op = "none"
  /\ op' = "find_subsets"
  /\ \E k \in SizeInputs :
       /\ arg' = <<k>>
       /\ subsets' = find_subsets(pcs, k)
  /\ UNCHANGED <<pcs, result, out, label, outcome, listing>>
  /\ UNCHANGED <<query, similar, heap, ret, relation, settings>>

FindSupersets ==
  /\ op = "none"
  /\ op' = "find_supersets"
  /\ \E k \in SizeInputs :
       /\ arg' = <<k>>
       /\ subsets' = find_supersets(pcs, k)
  /\ UNCHANGED <<pcs, result, out, label, outcome, listing>>
  /\ UNCHANGED <<query, similar, heap, ret, relation, settings>>

\* pcs.similarity_relation(other)
SimilarityRelation ==
  /\ op = "none"
  /\ op' = "similarity_relation"
  /\ \E other \in Partners(pcs) :
       /\ arg' = <<other>>
       /\ relation' = similarity_relation(pcs, other)
  /\ UNCHANGED <<pcs, result, out, label, outcome, listing>>
  /\ UNCHANGED <<query, similar, heap, ret, subsets, settings>>

AddRecentSet ==
  /\ op = "none"
  /\ op' = "add_recent_set"
  /\ \E pitch_classes \in RecentSetInputs(get_recent_sets(settings)) :
       /\ arg' = <<pitch_classes>>
       /\ settings' = add_recent_set(settings, pitch_classes)
  /\ UNCHANGED <<pcs, result, out, label, outcome, listing>>
  /\ UNCHANGED <<query, similar, heap, ret, subsets, relation>>

AddRecentForte ==
  /\ op = "none"
  /\ op' = "add_recent_forte"
  /\ \E forte_number \in RecentForteInputs :
       /\ arg' = <<forte_number>>
       /\ settings' = add_recent_forte(settings, forte_number)
  /\ UNCHANGED <<pcs, result, out, label, outcome, listing>>
  /\ UNCHANGED <<query, similar, heap, ret, subsets, relation>>

ClearHistory ==
  /\ op = "none"
  /\ op' = "clear_history"
  /\ arg' = <<>>
  /\ settings' = clear_history(settings)
  /\ UNCHANGED <<pcs, result, out, label, outcome, listing>>
  /\ UNCHANGED <<query, similar, heap, ret, subsets, relation>>

\* parse_pitch_classes(text) on a typed text
ParsePitchClasses ==
  /\ op = "none"
  /\ op' = "parse_pitch_classes"
  /\ \E text \in TextInputs :
       /\ query' = text
       /\ LET r == parse_pitch_classes(text)
          IN  outcome' = r.outcome /\ out' = r.value
  /\ UNCHANGED <<pcs, arg, result, label, listing, similar, heap, ret>>
  /\ UNCHANGED <<subsets, relation, settings>>

\* the caller goes on with the returned instance
Keep ==
  /\ op \in SetOps
  /\ pcs' = result
  /\ op' = "none"
  /\ arg' = <<>>
  /\ UNCHANGED <<result, out, label, outcome, listing, subsets,
                 relation, settings>>
  /\ UNCHANGED <<query, similar, heap, ret, subsets, relation, settings>>

\* the caller is done with the answer of a query and goes on with pcs
Discard ==
  /\ op \notin SetOps \cup {"none"}
  /\ op' = "none"
  /\ arg' = <<>>
  /\ result' = pcs
  /\ out' = <<>>
  /\ label' = None
  /\ outcome' = "ok"
  /\ listing' = <<>>
  /\ query' = <<>>
  /\ similar' = <<>>
  /\ subsets' = <<>>
  /\ relation' = <<>>
  /\ UNCHANGED <<pcs, heap, ret, settings>>

\* the set algebra of PitchClassSet
Next ==
  \/ AddPitchClass
  \/ RemovePitchClass
  \/ Transposition
  \/ Inversion
  \/ Rotation
  \/ Retrograde
  \/ RetrogradeInversion
  \/ Complement
  \/ Union
  \/ Intersection
  \/ PrimeForm
  \/ IntervalVector
  \/ Keep
  \/ Discard

Spec == Init /\ [][Next]_vars

\* the Forte queries, on every set that adding pitch classes builds
NextForte ==
  \/ AddPitchClass
  \/ GetForteNumber
  \/ GetSetFromForteNumber
  \/ GetAllSetsByCardinality
  \/ Keep
  \/ Discard

SpecForte == Init /\ [][NextForte]_vars

\* transposition and inversion, on every set that adding pitch classes and
\* retrograde build
NextTransform ==
  \/ AddPitchClass
  \/ Retrograde
  \/ Transposition
  \/ Inversion
  \/ Keep

SpecTransform == Init /\ [][NextTransform]_vars

\* the module is loaded and no instance has been built by the caller
InitLookup ==
  /\ pcs = PitchClassSet(<<>>)
  /\ op = "none"
  /\ arg = <<>>
  /\ result = pcs
  /\ out = <<>>
  /\ label = None
  /\ outcome = "ok"
  /\ listing = <<>>
  /\ query = <<>>
  /\ similar = <<>>
  /\ heap = <<>>
  /\ ret = <<>>
  /\ subsets = <<>>
  /\ relation = <<>>
  /\ settings = QSettings

\* the lookups by label string
NextLookup ==
  \/ LookupSet
  \/ GetIntervalVectorFromForte
  \/ FindSimilarSets
  \/ Discard

SpecLookup == InitLookup /\ [][NextLookup]_vars

\* the Z-partner query, on every set that adding pitch classes builds
NextPartner ==
  \/ AddPitchClass
  \/ GetZPartner
  \/ Keep
  \/ Discard

SpecPartner == Init /\ [][NextPartner]_vars

\* retrograde and retrograde inversion, on the constructed sets, their
\* complements and what the two operations return
NextRetrograde ==
  \/ Retrograde
  \/ RetrogradeInversion
  \/ Complement
  \/ Keep

SpecRetrograde == Init /\ [][NextRetrograde]_vars

\* the enumeration of subsets and supersets, on the constructed sets, their
\* unions with a small set, their complements and their retrogrades
NextSubsets ==
  \/ Union
  \/ Complement
  \/ Retrograde
  \/ FindSubsets
  \/ FindSupersets
  \/ Keep
  \/ Discard

SpecSubsets == Init /\ [][NextSubsets]_vars

\* the similarity relations, on every set that adding pitch classes builds
NextSimilarity ==
  \/ AddPitchClass
  \/ SimilarityRelation
  \/ Keep
  \/ Discard

SpecSimilarity == Init /\ [][NextSimilarity]_vars

\* the parser of the input field
NextParse ==
  \/ ParsePitchClasses
  \/ Discard

SpecParse == InitLookup /\ [][NextParse]_vars

\* the history of the settings, from an empty store
NextHistory ==
  \/ AddRecentSet
  \/ AddRecentForte
  \/ ClearHistory
  \/ Discard

SpecHistory == InitLookup /\ [][NextHistory]_vars

(***************************************************************************)
(* Instances with identity.  A call names its receiver and its argument    *)
(* by identity (arg); an instance the call builds and returns is appended  *)
(* to heap and named in ret.  The instances a call builds for its own use  *)
(* (the inverted and rotated sets of prime_form, the sets the table scans  *)
(* build) are unreachable when it returns and are left out.                *)
(***************************************************************************)
\* the label strings handed to the lookups here: two labels of the table and
\* one that no entry carries
HeapLabels ==
  {FORTE_TABLE[1][1].forte_num, FORTE_TABLE[2][1].forte_num,
   <<"1", "-", "3">>}

\* two instances exist
InitHeap ==
  \E a \in Others, b \in Others :
    /\ heap = <<a, b>>
    /\ ret = <<>>
    /\ pcs = PitchClassSet(<<>>)
    /\ op = "none"
    /\ arg = <<>>
    /\ result = pcs
    /\ out = <<>>
    /\ label = None
    /\ outcome = "ok"
    /\ listing = <<>>
    /\ query = <<>>
    /\ similar = <<>>
    /\ subsets = <<>>
    /\ relation = <<>>
    /\ settings = QSettings

HeapAddPitchClass ==
  /\ op = "none"
  /\ op' = "add_pitch_class"
  /\ \E self \in DOMAIN heap, n \in NRange :
       /\ arg' = <<self, n>>
       /\ heap' = Append(heap, add_pitch_class(heap[self], n))
  /\ ret' = <<Len(heap) + 1>>
  /\ UNCHANGED <<pcs, result, out, label, outcome, listing, query,
                 similar, subsets, relation, settings>>

HeapRemovePitchClass ==
  /\ op = "none"
  /\ op' = "remove_pitch_class"
  /\ \E self \in DOMAIN heap, n \in NRange :
       /\ arg' = <<self, n>>
       /\ heap' = Append(heap, remove_pitch_class(heap[self], n))
  /\ ret' = <<Len(heap) + 1>>
  /\ UNCHANGED <<pcs, result, out, label, outcome, listing, query,
                 similar, subsets, relation, settings>>

HeapTransposition ==
  /\ op = "none"
  /\ op' = "transposition"
  /\ \E self \in DOMAIN heap, n \in NRange :
       /\ arg' = <<self, n>>
       /\ heap' = Append(heap, transposition(heap[self], n))
  /\ ret' = <<Len(heap) + 1>>
  /\ UNCHANGED <<pcs, result, out, label, outcome, listing, query,
                 similar, subsets, relation, settings>>

HeapInversion ==
  /\ op = "none"
  /\ op' = "inversion"
  /\ \E self \in DOMAIN heap, n \in NRange :
       /\ arg' = <<self, n>>
       /\ heap' = Append(heap, inversion(heap[self], n))
  /\ ret' = <<Len(heap) + 1>>
  /\ UNCHANGED <<pcs, result, out, label, outcome, listing, query,
                 similar, subsets, relation, settings>>

HeapRotation ==
  /\ op = "none"
  /\ op' = "rotation"
  /\ \E self \in DOMAIN heap, n \in NRange :
       /\ arg' = <<self, n>>
       /\ heap' = Append(heap, rotation(heap[self], n))
  /\ ret' = <<Len(heap) + 1>>
  /\ UNCHANGED <<pcs, result, out, label, outcome, listing, query,
                 similar, subsets, relation, settings>>

\* retrograde that reverses the list of its receiver and returns the receiver
HeapRetrograde_in_place ==
  /\ op = "none"
  /\ op' = "retrograde"
  /\ \E self \in DOMAIN heap :
       /\ arg' = <<self>>
       /\ heap' = [heap EXCEPT ![self].pitch_classes =
                                 reversed(heap[self].pitch_classes)]
       /\ ret' = <<self>>
  /\ UNCHANGED <<pcs, result, out, label, outcome, listing, query,
                 similar, subsets, relation, settings>>

HeapRetrograde ==
  /\ op = "none"
  /\ op' = "retrograde"
  /\ \E self \in DOMAIN heap :
       /\ arg' = <<self>>
       /\ heap' = Append(heap, retrograde(heap[self]))
  /\ ret' = <<Len(heap) + 1>>
  /\ UNCHANGED <<pcs, result, out, label, outcome, listing, query,
                 similar, subsets, relation, settings>>

HeapRetrogradeInversion ==
  /\ op = "none"
  /\ op' = "retrograde_inversion"
  /\ \E self \in DOMAIN heap, n \in NRange :
       /\ arg' = <<self, n>>
       /\ heap' = Append(heap, retrograde_inversion(heap[self], n))
  /\ ret' = <<Len(heap) + 1>>
  /\ UNCHANGED <<pcs, result, out, label, outcome, listing, query,
                 similar, subsets, relation, settings>>

HeapComplement ==
  /\ op = "none"
  /\ op' = "complement"
  /\ \E self \in DOMAIN heap :
       /\ arg' = <<self>>
       /\ heap' = Append(heap, complement(heap[self]))
  /\ ret' = <<Len(heap) + 1>>
  /\ UNCHANGED <<pcs, result, out, label, outcome, listing, query,
                 similar, subsets, relation, settings>>

HeapUnion ==
  /\ op = "none"
  /\ op' = "union"
  /\ \E self \in DOMAIN heap, other \in DOMAIN heap :
       /\ arg' = <<self, other>>
       /\ heap' = Append(heap, union(heap[self], heap[other]))
  /\ ret' = <<Len(heap) + 1>>
  /\ UNCHANGED <<pcs, result, out, label, outcome, listing, query,
                 similar, subsets, relation, settings>>

HeapIntersection ==
  /\ op = "none"
  /\ op' = "intersection"
  /\ \E self \in DOMAIN heap, other \in DOMAIN heap :
       /\ arg' = <<self, other>>
       /\ heap' = Append(heap, intersection(heap[self], heap[other]))
  /\ ret' = <<Len(heap) + 1>>
  /\ UNCHANGED <<pcs, result, out, label, outcome, listing, query,
                 similar, subsets, relation, settings>>

HeapPrimeForm ==
  /\ op = "none"
  /\ op' = "prime_form"
  /\ \E self \in DOMAIN heap :
       /\ arg' = <<self>>
       /\ out' = prime_form(heap[self])
  /\ UNCHANGED <<pcs, result, label, outcome, listing, query,
                 similar, subsets, relation, settings>>
  /\ UNCHANGED <<heap, ret, subsets, relation, settings>>

HeapIntervalVector ==
  /\ op = "none"
  /\ op' = "interval_vector"
  /\ \E self \in DOMAIN heap :
       /\ arg' = <<self>>
       /\ out' = interval_vector(heap[self])
  /\ UNCHANGED <<pcs, result, label, outcome, listing, query,
                 similar, subsets, relation, settings>>
  /\ UNCHANGED <<heap, ret, subsets, relation, settings>>

HeapGetForteNumber ==
  /\ op = "none"
  /\ op' = "get_forte_number"
  /\ \E self \in DOMAIN heap :
       /\ arg' = <<self>>
       /\ label' = get_forte_number(heap[self])
  /\ UNCHANGED <<pcs, result, out, outcome, listing, query, similar,
                 subsets, relation, settings>>
  /\ UNCHANGED <<heap, ret, subsets, relation, settings>>

HeapGetZPartner ==
  /\ op = "none"
  /\ op' = "get_z_partner"
  /\ \E self \in DOMAIN heap :
       /\ arg' = <<self>>
       /\ label' = get_z_partner(heap[self])
  /\ UNCHANGED <<pcs, result, out, outcome, listing, query, similar,
                 subsets, relation, settings>>
  /\ UNCHANGED <<heap, ret, subsets, relation, settings>>

\* returns the instance it builds, or None
HeapGetSetFromForteNumber ==
  /\ op = "none"
  /\ op' = "get_set_from_forte_number"
  /\ \E s \in HeapLabels :
       /\ query' = s
       /\ LET r == get_set_from_forte_number(Some(s))
          IN  /\ outcome' = r.outcome
              /\ heap' = IF r.outcome = "ok" THEN Append(heap, r.value)
                         ELSE heap
              /\ ret' = IF r.outcome = "ok" THEN <<Len(heap) + 1>> ELSE <<>>
  /\ UNCHANGED <<pcs, arg, result, out, label, listing, similar,
                 subsets, relation, settings>>

\* returns a list of (instance, label) pairs, each instance built by the call
HeapGetAllSetsByCardinality ==
  /\ op = "none"
  /\ op' = "get_all_sets_by_cardinality"
  /\ \E k \in NRange :
       /\ arg' = <<k>>
       /\ listing' = get_all_sets_by_cardinality(k)
       /\ heap' = heap \o [i \in DOMAIN listing' |-> listing'[i].set]
       /\ ret' = [i \in DOMAIN listing' |-> Len(heap) + i]
  /\ UNCHANGED <<pcs, result, out, label, outcome, query, similar,
                 subsets, relation, settings>>

HeapGetIntervalVectorFromForte ==
  /\ op = "none"
  /\ op' = "get_interval_vector_from_forte"
  /\ \E s \in HeapLabels :
       /\ query' = s
       /\ LET r == get_interval_vector_from_forte(Some(s))
          IN  outcome' = r.outcome /\ out' = r.value
  /\ UNCHANGED <<pcs, arg, result, label, listing, similar, heap,
                 ret, subsets, relation, settings>>

HeapFindSimilarSets ==
  /\ op = "none"
  /\ op' = "find_similar_sets"
  /\ \E s \in HeapLabels :
       /\ query' = s
       /\ LET r == find_similar_sets(Some(s))
          IN  outcome' = r.outcome /\ similar' = r.value
  /\ UNCHANGED <<pcs, arg, result, out, label, listing, heap, ret,
                 subsets, relation, settings>>

\* the caller drops what the call returned: the instances it built go out of
\* scope
Release ==
  /\ op # "none"
  /\ op' = "none"
  /\ arg' = <<>>
  /\ heap' = SubSeq(heap, 1, Len(heap) - Len(ret))
  /\ ret' = <<>>
  /\ out' = <<>>
  /\ label' = None
  /\ outcome' = "ok"
  /\ listing' = <<>>
  /\ query' = <<>>
  /\ similar' = <<>>
  /\ subsets' = <<>>
  /\ relation' = <<>>
  /\ UNCHANGED <<pcs, result, settings>>

\* every operation, on instances with identity
NextHeap ==
  \/ HeapAddPitchClass
  \/ HeapRemovePitchClass
  \/ HeapTransposition
  \/ HeapInversion
  \/ HeapRotation
  \/ HeapRetrograde
  \/ HeapRetrogradeInversion
  \/ HeapComplement
  \/ HeapUnion
  \/ HeapIntersection
  \/ HeapPrimeForm
  \/ HeapIntervalVector
  \/ HeapGetForteNumber
  \/ HeapGetZPartner
  \/ HeapGetSetFromForteNumber
  \/ HeapGetAllSetsByCardinality
  \/ HeapGetIntervalVectorFromForte
  \/ HeapFindSimilarSets
  \/ Release

SpecHeap == InitHeap /\ [][NextHeap]_vars

(***************************************************************************)
(* Properties.                                                             *)
(***************************************************************************)
IsSortedList(l) == \A i \in 1..(Len(l) - 1) : l[i] < l[i + 1]

Members(self) == Range(self.pitch_classes)

\* C1: for every pcs of cardinality 1 to 12, get_set_from_forte_number applied
\* to get_forte_number(pcs) returns a set whose prime form is the prime form
\* of pcs.
C1_ForteRoundTrip ==
  (op = "get_set_from_forte_number" /\ pcs.cardinality \in 1..12)
    => (outcome = "ok" /\ prime_form(result) = prime_form(pcs))

\* C2: the prime form is the same for a set, for each of its transpositions
\* and for each of its inversions.
C2_PrimeFormCanonical ==
  op \in {"transposition", "inversion"}
    => prime_form(result) = prime_form(pcs)

\* C3: every key of FORTE_TABLE is its own prime form.
C3_TableKeysArePrimeForms ==
  op = "get_all_sets_by_cardinality"
    => \A i \in DOMAIN listing :
         prime_form(listing[i].set) = FORTE_TABLE[arg[1]][i].prime_form

\* C4: prime_form is idempotent: the set built from a prime form has that
\* prime form.
C4_PrimeFormIdempotent ==
  op = "prime_form" => prime_form(PitchClassSet(out)) = out

\* a set whose prime form comes from its inversion
C4_Witness ==
  /\ op = "prime_form"
  /\ pcs.cardinality >= 3
  /\ out # pcs.pitch_classes
  /\ out # reversed(pcs.pitch_classes)

\* C5: get_forte_number returns a Forte number for every pcs of cardinality
\* 1 to 12 and None for the empty set.
C5_ForteNumberFound ==
  op = "get_forte_number"
    => /\ pcs.cardinality \in 1..12 => label # None
       /\ pcs.cardinality = 0 => label = None

\* C6: two sets are equal exactly when they hold the same pitch classes, so
\* the retrograde of a set equals the set.
C6_EqualityIgnoresOrder ==
  op \in SetOps => (eq(result, pcs) <=> Members(result) = Members(pcs))

\* C7: in every instance the stored elements lie in 0..11, none is stored
\* twice, and cardinality is their number, between 0 and 12.
C7_DataModel ==
  \A x \in {pcs, result} :
    /\ Members(x) \subseteq 0..11
    /\ Cardinality(Members(x)) = Len(x.pitch_classes)
    /\ x.cardinality = Len(x.pitch_classes)
    /\ x.cardinality \in 0..12

\* an operation applied to a retrograde, built from integers outside 0..11
C7_Witness ==
  /\ op = "retrograde_inversion"
  /\ ~IsSortedList(pcs.pitch_classes)
  /\ ~IsSortedList(result.pitch_classes)
  /\ arg[1] \notin 0..11
  /\ pcs.cardinality >= 3

\* C8: the interval vector of a transposition or an inversion of a set is the
\* interval vector of the set.
C8_IntervalVectorInvariant ==
  op \in {"transposition", "inversion"}
    => interval_vector(result) = interval_vector(pcs)

\* an inversion by a negative n that moves a set of three or more elements
C8_Witness ==
  /\ op = "inversion"
  /\ arg[1] < 0
  /\ pcs.cardinality >= 3
  /\ Members(result) # Members(pcs)
  /\ interval_vector(pcs) # <<0, 0, 0, 0, 0, 0>>

\* C9: transposition(n) holds exactly the elements (e + n) mod 12, has the
\* cardinality of the set, and equals transposition(n mod 12).
C9_Transposition ==
  op = "transposition"
    => /\ Members(result) = {(e + arg[1]) % 12 : e \in Members(pcs)}
       /\ result.cardinality = pcs.cardinality
       /\ eq(result, transposition(pcs, arg[1] % 12))

\* a transposition by a negative n of a set of three or more elements
C9_Witness ==
  /\ op = "transposition"
  /\ arg[1] < 0
  /\ pcs.cardinality >= 3
  /\ Members(result) # Members(pcs)

\* C10: transposition(0) returns a set equal to the receiver, and inverting
\* twice around the same n returns a set equal to the receiver.
C10_IdentityAndInvolution ==
  /\ (op = "transposition" /\ arg = <<0>>) => eq(result, pcs)
  /\ op = "inversion" => eq(inversion(result, arg[1]), pcs)

\* the elements of a set in ascending order
Ascending(self) == sorted(Members(self))

\* s[i:] + s[:i]
CyclicShift(s, i) == SubSeq(s, i + 1, Len(s)) \o SubSeq(s, 1, i)

\* C11: complement() holds exactly the pitch classes of 0..11 that are not in
\* pcs, the two cardinalities sum to 12, and the complement of the complement
\* equals pcs.
C11_Complement ==
  op = "complement"
    => /\ Members(result) = (0..11) \ Members(pcs)
       /\ result.cardinality + pcs.cardinality = 12
       /\ eq(complement(result), pcs)

\* C12: constructing a set from the sorted pitch_classes of an instance gives
\* an instance equal to it, also for the results of retrograde and
\* retrograde_inversion.  (pitch_classes holds no element twice, so sorting
\* the list is sorting its elements.)
C12_PersistenceRoundTrip ==
  \A x \in {pcs, result} : eq(PitchClassSet(Ascending(x)), x)

\* C17: constructing from any list of integers stores exactly the set
\* {v mod 12 : v in the list} in ascending order; the empty list gives the
\* empty set with cardinality 0.
C17_Constructor ==
  op = "PitchClassSet"
    => /\ Members(result) = {v % 12 : v \in Range(arg)}
       /\ IsSortedList(result.pitch_classes)
       /\ result.cardinality = Cardinality({v % 12 : v \in Range(arg)})
       /\ arg = <<>> => (result.pitch_classes = <<>> /\ result.cardinality = 0)

\* a list with a negative integer and one that is 12 or larger
C17_Witness ==
  /\ op = "PitchClassSet"
  /\ Len(arg) = 2
  /\ arg[1] < 0
  /\ arg[2] >= 12
  /\ result.cardinality = 2

\* C18: prime_form() of a non-empty set is the lexicographically smallest of
\* the cyclic rotations of its ascending element sequence and of the cyclic
\* rotations of the ascending element sequence of its inversion around 0; of
\* the empty set it is the empty list.
C18_PrimeFormIsLexMin ==
  op = "prime_form"
    => LET s == Ascending(pcs)
           t == sorted({(0 - e) % 12 : e \in Members(pcs)})
           cands == {CyclicShift(s, i) : i \in 0..(Len(s) - 1)}
                      \cup {CyclicShift(t, i) : i \in 0..(Len(t) - 1)}
       IN  IF s = <<>> THEN out = <<>>
           ELSE /\ out \in cands
                /\ \A c \in cands : ~ListLess(c, out)

\* a retrograde of three or more elements whose prime form is its inversion
C18_Witness ==
  /\ op = "prime_form"
  /\ pcs.cardinality >= 3
  /\ ~IsSortedList(pcs.pitch_classes)
  /\ out # Ascending(pcs)
  /\ out = sorted({(0 - e) % 12 : e \in Members(pcs)})

\* C19: interval_vector() has 6 entries; entry i is the number of unordered
\* pairs of distinct members a, b with min(|a-b|, 12-|a-b|) = i; the entries
\* sum to k(k-1)/2 for cardinality k; for k < 2 it is the zero vector.
C19_IntervalVector ==
  op = "interval_vector"
    => LET M == Members(pcs)
           k == Cardinality(M)
           Pairs(i) ==
             {p \in M \X M :
                /\ p[1] < p[2]
                /\ (IF p[2] - p[1] <= 12 - (p[2] - p[1])
                      THEN p[2] - p[1] ELSE 12 - (p[2] - p[1])) = i}
       IN  /\ Len(out) = 6
           /\ \A i \in 1..6 : out[i] = Cardinality(Pairs(i))
           /\ out[1] + out[2] + out[3] + out[4] + out[5] + out[6]
                = (k * (k - 1)) \div 2
           /\ k < 2 => out = <<0, 0, 0, 0, 0, 0>>

\* a retrograde of four or more elements with a tritone and an interval above 6
C19_Witness ==
  /\ op = "interval_vector"
  /\ pcs.cardinality >= 4
  /\ ~IsSortedList(pcs.pitch_classes)
  /\ out[6] >= 1
  /\ \E a, b \in Members(pcs) : b - a > 6

\* C20: rotation(n) of a non-empty set stores the ascending element sequence
\* shifted cyclically by n mod k positions and holds the members of the set;
\* rotation of the empty set is the empty set.
C20_Rotation ==
  op = "rotation"
    => LET s == Ascending(pcs)
           k == Len(s)
       IN  IF k = 0 THEN result.pitch_classes = <<>>
           ELSE /\ result.pitch_classes = CyclicShift(s, arg[1] % k)
                /\ Members(result) = Members(pcs)

\* a label string as the claims read it: cardinality, "-", index
DashCount(s) == Cardinality({i \in DOMAIN s : s[i] = "-"})

AllDigits(u) == u # <<>> /\ \A i \in DOMAIN u : u[i] \in DigitChars

RECURSIVE Decimal(_)
Decimal(u) ==
  IF u = <<>> THEN 0
  ELSE 10 * Decimal(SubSeq(u, 1, Len(u) - 1)) + DigitVal(u[Len(u)])

DashAt(s) == CHOOSE i \in DOMAIN s : s[i] = "-"

LabelWellFormed(s) ==
  /\ DashCount(s) = 1
  /\ AllDigits(SubSeq(s, 1, DashAt(s) - 1))
  /\ AllDigits(SubSeq(s, DashAt(s) + 1, Len(s)))

LabelCard(s) == Decimal(SubSeq(s, 1, DashAt(s) - 1))

LabelIndex(s) == Decimal(SubSeq(s, DashAt(s) + 1, Len(s)))

\* s is malformed, names a cardinality outside 1..12, or names an index that
\* no entry of that cardinality carries
NoSuchEntry(s) ==
  \/ ~LabelWellFormed(s)
  \/ LabelCard(s) \notin 1..12
  \/ \A i \in DOMAIN FORTE_TABLE[LabelCard(s)] :
       LabelIndex(FORTE_TABLE[LabelCard(s)][i].forte_num) # LabelIndex(s)

\* C13: for a label that is malformed, names a cardinality outside 1..12 or
\* names an index no entry of that cardinality carries,
\* get_set_from_forte_number and get_interval_vector_from_forte return None
\* and find_similar_sets returns the empty list; none of them raises.
C13_MalformedLookup ==
  NoSuchEntry(query)
    => /\ op = "get_set_from_forte_number" => outcome = "None"
       /\ op = "get_interval_vector_from_forte" => outcome = "None"
       /\ op = "find_similar_sets" => (outcome = "ok" /\ similar = <<>>)

\* find_similar_sets on a well-formed label of cardinality 13
C13_Witness ==
  /\ op = "find_similar_sets"
  /\ LabelWellFormed(query)
  /\ LabelCard(query) = 13
  /\ similar = <<>>

\* C14: for every label L of the table, find_similar_sets(L) returns exactly
\* the labels of the entries, over all cardinalities, whose interval vector is
\* that of get_set_from_forte_number(L) and whose label differs from L; the
\* list never contains L.
C14_FindSimilarSets ==
  (op = "find_similar_sets" /\ query \in TableLabels)
    => LET target == get_set_from_forte_number(Some(query)).value
           iv == interval_vector(target)
           match ==
             {i \in DOMAIN AllItems :
                ItemVectors[i] = iv /\ AllItems[i].forte_num # query}
       IN  /\ outcome = "ok"
           /\ Range(similar) = {AllItems[i].forte_num : i \in match}
           /\ Len(similar) = Cardinality(match)
           /\ query \notin Range(similar)

\* a label of the table that has similar sets
C14_Witness ==
  /\ op = "find_similar_sets"
  /\ query \in TableLabels
  /\ similar # <<>>

\* C15: for a pcs that has a Forte number, get_z_partner(pcs) returns the
\* label of the first entry of its cardinality, in table order, whose key
\* differs from the prime form of pcs and whose interval vector is that of
\* pcs; it returns None exactly when there is no such entry or pcs has no
\* Forte number.
C15_ZPartner ==
  op = "get_z_partner"
    => IF get_forte_number(pcs) = None THEN label = None
       ELSE LET items == FORTE_TABLE[pcs.cardinality]
                hits ==
                  {i \in DOMAIN items :
                     /\ items[i].prime_form # prime_form(pcs)
                     /\ interval_vector(PitchClassSet(items[i].prime_form))
                          = interval_vector(pcs)}
            IN  IF hits = {} THEN label = None
                ELSE label = Some(items[CHOOSE i \in hits :
                                          \A j \in hits : i <= j].forte_num)

\* C16: a call mutates nothing that exists: every instance that existed
\* before the call (the receiver, the argument, every other one) has its
\* pitch_classes and cardinality unchanged after it, and every instance the
\* call returns is a new one.
C16_NoMutation ==
  [][op' # "none"
       => /\ Len(heap') >= Len(heap)
          /\ \A i \in DOMAIN heap : heap'[i] = heap[i]
          /\ \A k \in DOMAIN ret' :
               ret'[k] \in DOMAIN heap' /\ ret'[k] \notin DOMAIN heap]_vars

\* retrograde returned a new instance in reversed order and its receiver
\* still holds the ascending order
C16_Witness ==
  /\ op = "retrograde"
  /\ ret = <<3>>
  /\ heap[arg[1]].pitch_classes = <<0, 1>>
  /\ heap[3].pitch_classes = <<1, 0>>

C22_DuplicateLabels ==
  (op = "get_all_sets_by_cardinality" /\ arg[1] \in (1..12) \ {4, 6})
    => /\ \A i, j \in DOMAIN listing :
            listing[i].forte_number = listing[j].forte_number => i = j
       /\ Len(listing) = cardinality_counts[arg[1]]

\* C26: for every Forte number L of the table,
\* get_forte_number(get_set_from_forte_number(L)) is L.
C26_LabelRoundTrip ==
  (op = "get_set_from_forte_number" /\ query \in TableLabels)
    => (outcome = "ok" /\ get_forte_number(result) = Some(query))

\* C27: prime_form, interval_vector, complement, transposition(n),
\* inversion(n), rotation(n) and get_forte_number give on pcs.retrograde()
\* what they give on pcs.
C27_RetrogradeDoesNotLeak ==
  op = "retrograde"
    => /\ prime_form(result) = prime_form(pcs)
       /\ interval_vector(result) = interval_vector(pcs)
       /\ complement(result) = complement(pcs)
       /\ get_forte_number(result) = get_forte_number(pcs)
       /\ \A n \in NRange :
            /\ transposition(result, n) = transposition(pcs, n)
            /\ inversion(result, n) = inversion(pcs, n)
            /\ rotation(result, n) = rotation(pcs, n)

\* a retrograde result that stores another order than its receiver, of a set
\* that has a Forte number
C27_Witness ==
  /\ op = "retrograde"
  /\ pcs.cardinality >= 3
  /\ result.pitch_classes # pcs.pitch_classes
  /\ get_forte_number(pcs) # None

\* C28: for every entry of FORTE_TABLE, at most one other Forte number of the
\* same cardinality labels an entry with the same interval vector.
C28_ZPartnerUnambiguous ==
  op = "get_all_sets_by_cardinality"
    => \A i \in DOMAIN listing :
         Cardinality({listing[j].forte_number : j \in
                        {j \in DOMAIN listing :
                           /\ listing[j].forte_number # listing[i].forte_number
                           /\ interval_vector(listing[j].set)
                                = interval_vector(listing[i].set)}}) <= 1

RECURSIVE Binomial(_, _)
\* the number of k-element subsets of an n-element set, 0 <= k
Binomial(n, k) ==
  IF k = 0 THEN 1 ELSE (Binomial(n, k - 1) * (n - k + 1)) \div k

\* C23: for pcs of cardinality c, find_subsets(k) with 0 <= k <= c returns
\* the C(c, k) k-element subsets of pcs, each exactly once; for every other
\* k it returns the empty list.
C23_FindSubsets ==
  op = "find_subsets"
    => LET c == Cardinality(Members(pcs))
           k == arg[1]
       IN  IF 0 <= k /\ k <= c
           THEN /\ Len(subsets) = Binomial(c, k)
                /\ Cardinality({subsets[i] : i \in DOMAIN subsets})
                     = Len(subsets)
                /\ {Members(subsets[i]) : i \in DOMAIN subsets}
                     = {S \in SUBSET Members(pcs) : Cardinality(S) = k}
                /\ \A i \in DOMAIN subsets :
                     /\ subsets[i].cardinality = k
                     /\ IsSortedList(subsets[i].pitch_classes)
           ELSE subsets = <<>>

\* the pairs of a retrograde result of eight or more pitch classes
C23_Witness ==
  /\ op = "find_subsets"
  /\ arg = <<2>>
  /\ pcs.cardinality >= 8
  /\ ~IsSortedList(pcs.pitch_classes)
  /\ Len(subsets) >= 28

C29_SimilarityRelation ==
  op = "similarity_relation"
    => LET a == pcs.cardinality
           b == arg[1].cardinality
       IN  /\ (relation.R /\ (a >= 2 \/ b >= 2))
                => /\ a = b
                   /\ relation.R0
                   /\ ~relation.R2
                   /\ relation.R1 => (a = 6 /\ b = 6)
           /\ relation.R2 => {a, b} = {0, 1}

\* a hexachord and another hexachord with its interval vector: R, R0 and R1
C29_Witness ==
  /\ op = "similarity_relation"
  /\ pcs.cardinality = 6
  /\ Members(arg[1]) # Members(pcs)
  /\ relation.R
  /\ relation.R1

\* C30: the recent-sets list has at most 10 entries and the recent-Forte
\* list at most 5, neither holds an entry twice, the entry added last is the
\* first of its list, and clear_history empties both.
C30_History ==
  LET sets == get_recent_sets(settings)
      forte == get_recent_forte(settings)
  IN  /\ Len(sets) <= 10
      /\ Len(forte) <= 5
      /\ \A i, j \in DOMAIN sets : sets[i] = sets[j] => i = j
      /\ \A i, j \in DOMAIN forte : forte[i] = forte[j] => i = j
      /\ op = "add_recent_set" => (sets # <<>> /\ sets[1] = arg[1])
      /\ op = "add_recent_forte" => (forte # <<>> /\ forte[1] = arg[1])
      /\ op = "clear_history" => (sets = <<>> /\ forte = <<>>)

\* both lists are full, the first set recorded has been dropped, and the set
\* recorded last was in the list before
C30_Witness ==
  /\ op = "add_recent_set"
  /\ Len(get_recent_sets(settings)) = 10
  /\ <<0>> \notin Range(get_recent_sets(settings))
  /\ get_recent_sets(settings)[1][1] < get_recent_sets(settings)[2][1]
  /\ Len(get_recent_forte(settings)) = 5

\* the tokens of a text: brackets deleted, the maximal runs of characters
\* other than "," and whitespace
Tokens(text) ==
  LET t == SelectSeq(text,
             LAMBDA ch : ch \notin {"[", "]", "{", "}", "(", ")"})
      IsSep(i) == t[i] \in {",", " "}
      runs == {p \in (DOMAIN t) \X (DOMAIN t) :
                 /\ p[1] <= p[2]
                 /\ \A h \in p[1]..p[2] : ~IsSep(h)
                 /\ p[1] = 1 \/ IsSep(p[1] - 1)
                 /\ p[2] = Len(t) \/ IsSep(p[2] + 1)}
  IN  {SubSeq(t, p[1], p[2]) : p \in runs}

\* C25: parse_pitch_classes returns None or a non-empty list without
\* duplicates of integers in 0..11; a text that is not a Forte number of the
\* table and has a token that is no integer or an integer outside 0..11
\* yields None; a Forte number of the table yields the ascending elements of
\* the prime form of its entry.
C25_ParsePitchClasses ==
  op = "parse_pitch_classes"
    => /\ outcome \in {"ok", "None"}
       /\ outcome = "ok"
            => /\ out # <<>>
               /\ \A i \in DOMAIN out : out[i] \in 0..11
               /\ \A i, j \in DOMAIN out : out[i] = out[j] => i = j
       /\ (/\ strip(query) \notin TableLabels
           /\ \E tok \in Tokens(query) :
                ~IntOk(tok) \/ int(tok) \notin 0..11)
            => outcome = "None"
       /\ strip(query) \in TableLabels
            => LET hits == {i \in DOMAIN AllItems :
                              AllItems[i].forte_num = strip(query)}
                   first == CHOOSE i \in hits : \A j \in hits : i <= j
               IN  /\ outcome = "ok"
                   /\ IsSortedList(out)
                   /\ Range(out) = Range(AllItems[first].prime_form)

\* an integer token above 11 after a valid one: None, not the residue
C25_Witness ==
  /\ op = "parse_pitch_classes"
  /\ query = <<"0", ",", "1", "3">>
  /\ outcome = "None"

====
